---- MODULE Spec2Model ----
(***************************************************************************)
(* Batch-mutation engine of the Google Docs toolset: the Batch Operation   *)
(* Manager, the Table Operation Manager and the Header/Footer Manager,     *)
(* each run against the external document service.  A behaviour is one run *)
(* of one public operation: Init draws the operation and its arguments,    *)
(* the actions are the steps between the awaited service calls.            *)
(***************************************************************************)
EXTENDS Integers, Sequences, FiniteSets, TLC

VARIABLES
    op,           \* the public operation this run executes
    args,         \* its arguments
    pc,           \* position of the run: the await it is suspended at
    calls,        \* service calls issued so far, in issue order, with their replies
    inflight,     \* positions in calls of the calls not yet answered
    awaiting,     \* position in calls of the call the run awaits (0: none)
    result,       \* what the operation returned (or that it raised)
    doc,          \* the document as the service holds it
    failures,     \* service failures (network, 5xx) so far
    requests,     \* executeBatchOperations: the built record list
    operationDescriptions,  \* executeBatchOperations: the built summaries
    freshTables,  \* table managers: the tables of the first fetch
    rowIdx,       \* table managers: the loop's row (0-based)
    colIdx,       \* table managers: the loop's column (0-based)
    populationCount,  \* table managers: cells written so far
    redis,        \* sequentialThinkingTool: the value stored under the user's key
    thinking      \* sequentialThinkingTool: the calls for the user, each at its await

vars == <<op, args, pc, calls, inflight, awaiting, result, doc, failures, requests,
          operationDescriptions, freshTables, rowIdx, colIdx, populationCount,
          redis, thinking>>

\* what the Google Docs managers never touch
thinkingVars == <<redis, thinking>>

(***************************************************************************)
(* Bounds of the model.                                                    *)
(***************************************************************************)
MaxOps == 3
MaxRows == 2
MaxCols == 2
MaxFailures == 1
MaxElements == 3
MaxIndex == 3
\* the indices a cell of a parsed payload spans
CellSpan == 6
\* the calls of sequentialThinkingTool one user has under way
MaxThoughts == 2

(***************************************************************************)
(* JavaScript values.  A value carries its type tag so that `undefined`,   *)
(* `null`, numbers, strings and booleans can sit in the same field.        *)
(***************************************************************************)
Undefined == [t |-> "undefined"]
Null == [t |-> "null"]
Num(n) == [t |-> "number", v |-> n]
Str(s) == [t |-> "string", v |-> s]
Bool(b) == [t |-> "boolean", v |-> b]

\* o.f : reading a property an object does not have yields undefined
Get(o, f) == IF f \in DOMAIN o THEN o[f] ELSE Undefined

\* ToBoolean
Truthy(v) ==
    CASE v.t = "undefined" -> FALSE
      [] v.t = "null" -> FALSE
      [] v.t = "boolean" -> v.v
      [] v.t = "number" -> v.v # 0
      [] v.t = "string" -> v.v # ""
      [] OTHER -> TRUE

Digits == <<"0", "1", "2", "3", "4", "5", "6", "7", "8", "9">>

RECURSIVE NatToString(_)
NatToString(n) ==
    IF n < 10 THEN Digits[n + 1]
    ELSE NatToString(n \div 10) \o Digits[(n % 10) + 1]

\* `${v}` : template-literal conversion of a value
TemplateString(v) ==
    CASE v.t = "undefined" -> "undefined"
      [] v.t = "null" -> "null"
      [] v.t = "boolean" -> (IF v.v THEN "true" ELSE "false")
      [] v.t = "number" -> NatToString(v.v)
      [] v.t = "string" -> v.v

\* String.prototype.includes
Includes(s, sub) ==
    \E i \in 1..(Len(s) - Len(sub) + 1) : SubSeq(s, i, i + Len(sub) - 1) = sub

\* a thrown error: its class name and message; `${error}` prints both
MkError(name, message) == [name |-> name, message |-> message]
ErrorToString(e) == e.name \o ": " \o e.message

(***************************************************************************)
(* docs_helpers.ts : the Request Builder.                                  *)
(***************************************************************************)
createInsertTextRequest(index, text) ==
    [insertText |-> [location |-> [index |-> index], text |-> text]]

createDeleteRangeRequest(startIndex, endIndex) ==
    [deleteContentRange |-> [range |-> [startIndex |-> startIndex, endIndex |-> endIndex]]]

\* buildTextStyle: the style object and the field list, in push order
buildTextStyle(options) ==
    LET b == IF options.bold # Undefined THEN <<"bold">> ELSE <<>>
        i == IF options.italic # Undefined THEN <<"italic">> ELSE <<>>
        u == IF options.underline # Undefined THEN <<"underline">> ELSE <<>>
        s == IF options.fontSize # Undefined THEN <<"fontSize">> ELSE <<>>
        f == IF Truthy(options.fontFamily) THEN <<"weightedFontFamily">> ELSE <<>>
        fields == b \o i \o u \o s \o f
        textStyle ==
            [x \in {fields[k] : k \in 1..Len(fields)} |->
                CASE x = "bold" -> options.bold
                  [] x = "italic" -> options.italic
                  [] x = "underline" -> options.underline
                  [] x = "fontSize" -> [magnitude |-> options.fontSize, unit |-> "PT"]
                  [] x = "weightedFontFamily" -> [fontFamily |-> options.fontFamily]]
    IN  <<textStyle, fields>>

\* Array.prototype.join(sep) of items[lo..hi], joined by halves
RECURSIVE JoinBetween(_, _, _, _)
JoinBetween(items, sep, lo, hi) ==
    IF lo > hi THEN ""
    ELSE IF lo = hi THEN items[lo]
    ELSE LET mid == (lo + hi) \div 2
         IN  JoinBetween(items, sep, lo, mid) \o sep \o JoinBetween(items, sep, mid + 1, hi)

\* Array.prototype.join(',')
JoinComma(fields) == JoinBetween(fields, ",", 1, Len(fields))

\* createFormatTextRequest: Null when no style field was built
createFormatTextRequest(startIndex, endIndex, options) ==
    LET built == buildTextStyle(options)
    IN  IF Len(built[2]) = 0 THEN Null
        ELSE [updateTextStyle |->
                [range |-> [startIndex |-> startIndex, endIndex |-> endIndex],
                 textStyle |-> built[1],
                 fields |-> JoinComma(built[2])]]

createFindReplaceRequest(findText, replaceText, matchCase) ==
    [replaceAllText |->
        [containsText |-> [text |-> findText, matchCase |-> matchCase],
         replaceText |-> replaceText]]

createInsertTableRequest(index, rows, columns) ==
    [insertTable |-> [location |-> [index |-> index], rows |-> rows, columns |-> columns]]

createInsertPageBreakRequest(index) ==
    [insertPageBreak |-> [location |-> [index |-> index]]]

\* the required-field schedule of validateOperation
requiredFields ==
    [insert_text |-> <<"index", "text">>,
     delete_text |-> <<"start_index", "end_index">>,
     replace_text |-> <<"start_index", "end_index", "text">>,
     format_text |-> <<"start_index", "end_index">>,
     insert_table |-> <<"index", "rows", "columns">>,
     insert_page_break |-> <<"index">>,
     find_replace |-> <<"find_text", "replace_text">>]

\* property names every object literal inherits from Object.prototype:
\* `name in requiredFields` is true of them although they are no own key
ObjectPrototypeKeys ==
    {"constructor", "toString", "valueOf", "hasOwnProperty", "__proto__"}

\* validateOperation: [ok, message], or the TypeError of iterating a
\* non-iterable inherited property
validateOperation(operation) ==
    LET type == Get(operation, "type")
    IN  IF ~Truthy(type)
        THEN [threw |-> FALSE, ok |-> FALSE, msg |-> "Missing 'type' field"]
        ELSE IF TemplateString(type) \in ObjectPrototypeKeys
        THEN [threw |-> TRUE, ok |-> FALSE,
              msg |-> "requiredFields[operation.type] is not iterable"]
        ELSE IF TemplateString(type) \notin DOMAIN requiredFields
        THEN [threw |-> FALSE, ok |-> FALSE,
              msg |-> "Unsupported operation type: " \o TemplateString(type)]
        ELSE LET req == requiredFields[TemplateString(type)]
                 missing == {k \in 1..Len(req) : req[k] \notin DOMAIN operation}
             IN  IF missing # {}
                 THEN [threw |-> FALSE, ok |-> FALSE,
                       msg |-> "Missing required field: "
                               \o req[CHOOSE k \in missing : \A m \in missing : k <= m]]
                 ELSE [threw |-> FALSE, ok |-> TRUE, msg |-> ""]

(***************************************************************************)
(* batch_operation_manager.ts : the Batch Orchestrator.                    *)
(***************************************************************************)
\* the outcome of a call that may throw
Returned(v) == [threw |-> FALSE, err |-> MkError("", ""), val |-> v]
Threw(e) == [threw |-> TRUE, err |-> e, val |-> <<>>]

\* `${a}, ${b}, ...` : Array.prototype.join(', ')
RECURSIVE JoinCommaSpace(_)
JoinCommaSpace(items) ==
    IF Len(items) = 0 THEN ""
    ELSE IF Len(items) = 1 THEN items[1]
    ELSE items[1] \o ", " \o JoinCommaSpace(Tail(items))

supportedTypes ==
    <<"insert_text", "delete_text", "replace_text", "format_text",
      "insert_table", "insert_page_break", "find_replace">>

\* the `formatChanges` list of the format_text case
formatChanges(o) ==
    LET item(param, name) ==
            IF Get(o, param) # Undefined
            THEN <<name \o ": " \o TemplateString(Get(o, param))
                        \o (IF param = "fontSize" THEN "pt" ELSE "")>>
            ELSE <<>>
    IN  item("bold", "bold") \o item("italic", "italic")
        \o item("underline", "underline") \o item("fontSize", "font size")
        \o item("fontFamily", "font family")

\* buildOperationRequest: [request(s), description], or the error thrown
buildOperationRequest(o, opType) ==
    LET ty == TemplateString(opType)
        at(f) == TemplateString(Get(o, f))
    IN  CASE ty = "insert_text" ->
              Returned([reqs |-> <<createInsertTextRequest(Get(o, "index"), Get(o, "text"))>>,
                        description |-> "insert text at " \o at("index")])
          [] ty = "delete_text" ->
              Returned([reqs |-> <<createDeleteRangeRequest(Get(o, "startIndex"),
                                                           Get(o, "endIndex"))>>,
                        description |-> "delete text " \o at("startIndex")
                                        \o "-" \o at("endIndex")])
          [] ty = "replace_text" ->
              LET text == Get(o, "text")
                  deleteReq == createDeleteRangeRequest(Get(o, "startIndex"), Get(o, "endIndex"))
                  insertReq == createInsertTextRequest(Get(o, "startIndex"), text)
                  truncatedText ==
                      IF text.t = "string" /\ Len(text.v) > 20
                      THEN SubSeq(text.v, 1, 20) \o "..."
                      ELSE TemplateString(text)
              IN  IF text.t \in {"undefined", "null"}
                  THEN Threw(MkError("TypeError",
                          "Cannot read properties of " \o text.t \o " (reading 'length')"))
                  ELSE Returned([reqs |-> <<deleteReq, insertReq>>,
                                 description |-> "replace text " \o at("startIndex") \o "-"
                                     \o at("endIndex") \o " with '" \o truncatedText \o "'"])
          [] ty = "format_text" ->
              LET formatRequest ==
                      createFormatTextRequest(Get(o, "startIndex"), Get(o, "endIndex"),
                          [bold |-> Get(o, "bold"), italic |-> Get(o, "italic"),
                           underline |-> Get(o, "underline"),
                           fontSize |-> Get(o, "fontSize"),
                           fontFamily |-> Get(o, "fontFamily")])
              IN  IF formatRequest = Null
                  THEN Threw(MkError("Error", "No formatting options provided"))
                  ELSE Returned([reqs |-> <<formatRequest>>,
                                 description |-> "format text " \o at("startIndex") \o "-"
                                     \o at("endIndex") \o " ("
                                     \o JoinCommaSpace(formatChanges(o)) \o ")"])
          [] ty = "insert_table" ->
              Returned([reqs |-> <<createInsertTableRequest(Get(o, "index"), Get(o, "rows"),
                                                           Get(o, "columns"))>>,
                        description |-> "insert " \o at("rows") \o "x" \o at("columns")
                                        \o " table at " \o at("index")])
          [] ty = "insert_page_break" ->
              Returned([reqs |-> <<createInsertPageBreakRequest(Get(o, "index"))>>,
                        description |-> "insert page break at " \o at("index")])
          [] ty = "find_replace" ->
              LET mc == Get(o, "matchCase")
              IN  Returned([reqs |-> <<createFindReplaceRequest(Get(o, "findText"),
                                          Get(o, "replaceText"),
                                          IF Truthy(mc) THEN mc ELSE Bool(FALSE))>>,
                            description |-> "find/replace '" \o at("findText")
                                            \o "' -> '" \o at("replaceText") \o "'"])
          [] OTHER ->
              Threw(MkError("Error", "Unsupported operation type '" \o ty
                        \o "'. Supported: " \o JoinCommaSpace(supportedTypes)))

\* the same loop with `requests.unshift(...)` in place of `requests.push(...)`:
\* each operation's records go in front of those built before
RECURSIVE BuildFromUnshift(_, _, _, _)
BuildFromUnshift(operations, i, reqs, descs) ==
    IF i > Len(operations) THEN Returned([requests |-> reqs, operationDescriptions |-> descs])
    ELSE LET o == operations[i]
             v == validateOperation(o)
         IN  IF v.threw THEN Threw(MkError("TypeError", v.msg))
             ELSE IF ~v.ok
             THEN Threw(MkError("Error", "Operation " \o NatToString(i) \o ": " \o v.msg))
             ELSE LET opType == Get(o, "type")
                      b == buildOperationRequest(o, opType)
                  IN  IF b.threw
                      THEN Threw(MkError("Error",
                              "Operation " \o NatToString(i) \o " ("
                              \o TemplateString(opType) \o ") failed: " \o b.err.message))
                      ELSE BuildFromUnshift(operations, i + 1, b.val.reqs \o reqs,
                                            Append(descs, b.val.description))

\* the body of validateAndBuildRequests' loop from position i on, with the
\* records and summaries accumulated so far
RECURSIVE BuildFrom(_, _, _, _)
BuildFrom(operations, i, reqs, descs) ==
    IF i > Len(operations) THEN Returned([requests |-> reqs, operationDescriptions |-> descs])
    ELSE LET o == operations[i]
             v == validateOperation(o)
         IN  IF v.threw THEN Threw(MkError("TypeError", v.msg))
             ELSE IF ~v.ok
             THEN Threw(MkError("Error", "Operation " \o NatToString(i) \o ": " \o v.msg))
             ELSE LET opType == Get(o, "type")
                      b == buildOperationRequest(o, opType)
                  IN  IF b.threw
                      THEN Threw(MkError("Error",
                              "Operation " \o NatToString(i) \o " ("
                              \o TemplateString(opType) \o ") failed: " \o b.err.message))
                      ELSE BuildFrom(operations, i + 1, reqs \o b.val.reqs,
                                     Append(descs, b.val.description))

validateAndBuildRequests(operations) == BuildFrom(operations, 1, <<>>, <<>>)

\* buildOperationSummary
buildOperationSummary(descs) ==
    IF Len(descs) = 0 THEN "no operations"
    ELSE LET summary == JoinCommaSpace(SubSeq(descs, 1, IF Len(descs) < 3 THEN Len(descs) ELSE 3))
             remaining == Len(descs) - 3
         IN  IF Len(descs) > 3
             THEN summary \o " and " \o NatToString(remaining) \o " more operation"
                  \o (IF remaining > 1 THEN "s" ELSE "")
             ELSE summary

\* what a public operation hands back: a structured result, or a rejection
\* of its promise (the operation raised)
Result(success, message, metadata) ==
    [status |-> "returned", success |-> success, message |-> message, metadata |-> metadata]
Raised(e) == [status |-> "raised", error |-> e]
NoResult == [status |-> "none"]

BatchMetadata(operationsCount, requestsCount, repliesCount, operationSummary) ==
    [operationsCount |-> operationsCount, requestsCount |-> requestsCount,
     repliesCount |-> repliesCount, operationSummary |-> operationSummary]

\* a JavaScript array value
Arr(s) == [t |-> "array", v |-> s]

(***************************************************************************)
(* Inputs of executeBatchOperations.                                       *)
(***************************************************************************)
\* an operation carrying a range under the names validateOperation requires
\* (snake), under the names buildOperationRequest reads (camel), or both
Range(naming, s, e) ==
    CASE naming = "snake" -> [start_index |-> Num(s), end_index |-> Num(e)]
      [] naming = "camel" -> [startIndex |-> Num(s), endIndex |-> Num(e)]
      [] naming = "both" -> [start_index |-> Num(s), end_index |-> Num(e),
                             startIndex |-> Num(s), endIndex |-> Num(e)]

\* record union: the fields of a and of b
Merge(a, b) ==
    [f \in DOMAIN a \cup DOMAIN b |-> IF f \in DOMAIN a THEN a[f] ELSE b[f]]

Namings == {"snake", "camel", "both"}

BatchOps ==
    {[type |-> Str("insert_text"), index |-> Num(1), text |-> Str("Hello World")],
     [type |-> Str("insert_table"), index |-> Num(20), rows |-> Num(2), columns |-> Num(3)],
     [type |-> Str("insert_page_break"), index |-> Num(1)],
     [type |-> Str("find_replace"), find_text |-> Str("a"), replace_text |-> Str("b"),
      findText |-> Str("a"), replaceText |-> Str("b")],
     [type |-> Str("bogus"), index |-> Num(1)],
     [type |-> Str("constructor"), index |-> Num(1)],
     [index |-> Num(1), text |-> Str("x")],
     Merge([type |-> Str("delete_text")], Range("both", 5, 2)),
     Merge([type |-> Str("replace_text"), text |-> Null], Range("both", 2, 5)),
     Merge([type |-> Str("format_text"), bold |-> Bool(TRUE)], Range("camel", 1, 12))}
    \cup {Merge([type |-> Str("delete_text")], Range(n, 2, 5)) : n \in {"snake", "both"}}
    \cup {Merge([type |-> Str("replace_text"), text |-> Str("new")], Range(n, 2, 5)) :
            n \in Namings}
    \cup {Merge([type |-> Str("format_text")], Range("both", 1, 12))}
    \cup {Merge([type |-> Str("format_text"), bold |-> Bool(TRUE)], Range("both", 1, 12)),
          Merge([type |-> Str("format_text"), italic |-> Bool(FALSE)], Range("both", 1, 12)),
          Merge([type |-> Str("format_text"), underline |-> Bool(TRUE)], Range("both", 1, 12)),
          Merge([type |-> Str("format_text"), fontSize |-> Num(12)], Range("both", 1, 12)),
          Merge([type |-> Str("format_text"), fontFamily |-> Str("Arial")], Range("both", 1, 12)),
          Merge([type |-> Str("format_text"), fontFamily |-> Str("")], Range("both", 1, 12))}

\* the operations every position of a list is drawn from: the lists are
\* those of up to MaxOps core operations, each also with one entry replaced
\* by any operation of BatchOps
CoreOps ==
    {[type |-> Str("insert_text"), index |-> Num(1), text |-> Str("Hello World")],
     [type |-> Str("constructor"), index |-> Num(1)],
     Merge([type |-> Str("delete_text")], Range("snake", 2, 5)),
     Merge([type |-> Str("replace_text"), text |-> Str("new")], Range("both", 2, 5)),
     Merge([type |-> Str("replace_text"), text |-> Str("new")], Range("camel", 2, 5)),
     Merge([type |-> Str("format_text")], Range("both", 1, 12))}

(***************************************************************************)
(* The external document service, at its interface (get, batchUpdate).     *)
(* The document body is a sequence of paragraphs and tables; every index   *)
(* of a payload is computed from it, so each write moves the indices of    *)
(* everything behind it.                                                   *)
(***************************************************************************)
RECURSIVE SumSeq(_)
SumSeq(q) == IF Len(q) = 0 THEN 0 ELSE q[1] + SumSeq(Tail(q))

Paragraph(text) == [kind |-> "paragraph", text |-> text]
\* own: the table was created by this run's insert-table (not visible in payloads)
Table(cells, own) == [kind |-> "table", cells |-> cells, own |-> own]

BlankCells(rows, cols) == [r \in 1..rows |-> [c \in 1..cols |-> ""]]

\* a cell holds one marker position and one paragraph: its text and a newline
CellSize(text) == Len(text) + 2
RowSize(row) == 1 + SumSeq([c \in 1..Len(row) |-> CellSize(row[c])])
TableSize(cells) == 1 + SumSeq([r \in 1..Len(cells) |-> RowSize(cells[r])])
ElementSize(e) == IF e.kind = "paragraph" THEN Len(e.text) + 1 ELSE TableSize(e.cells)

\* the body starts at 1, behind the leading section break
ElementStart(body, k) == 1 + SumSeq([j \in 1..(k - 1) |-> ElementSize(body[j])])
BodyEnd(body) == ElementStart(body, Len(body) + 1)
RowStart(cells, s, r) == s + 1 + SumSeq([j \in 1..(r - 1) |-> RowSize(cells[j])])
CellStart(row, rs, c) == rs + 1 + SumSeq([j \in 1..(c - 1) |-> CellSize(row[j])])

RenderParagraph(text, s) ==
    [startIndex |-> s, endIndex |-> s + Len(text) + 1,
     paragraph |-> [elements |->
        <<[startIndex |-> s, endIndex |-> s + Len(text) + 1,
           textRun |-> [content |-> text \o "\n"]]>>]]

RenderCell(text, cs) ==
    [startIndex |-> cs, endIndex |-> cs + CellSize(text),
     content |-> <<RenderParagraph(text, cs + 1)>>]

RenderRow(row, rs) ==
    [startIndex |-> rs, endIndex |-> rs + RowSize(row),
     tableCells |-> [c \in 1..Len(row) |-> RenderCell(row[c], CellStart(row, rs, c))]]

RenderTable(cells, s) ==
    [startIndex |-> s, endIndex |-> s + TableSize(cells),
     table |-> [rows |-> Len(cells), columns |-> Len(cells[1]),
                tableRows |-> [r \in 1..Len(cells) |->
                                  RenderRow(cells[r], RowStart(cells, s, r))]]]

RenderElement(e, s) ==
    IF e.kind = "paragraph" THEN RenderParagraph(e.text, s) ELSE RenderTable(e.cells, s)

\* a header or footer segment has its own index space, starting at 0
RenderSection(sec) ==
    LET base == [content |-> [k \in 1..Len(sec.paragraphs) |->
                    RenderParagraph(sec.paragraphs[k],
                        SumSeq([j \in 1..(k - 1) |-> Len(sec.paragraphs[j]) + 1]))]]
    IN  IF sec.type = "" THEN base ELSE Merge(base, [type |-> sec.type])

RenderSections(secs) ==
    [k \in 1..Len(secs) |-> [id |-> secs[k].id, section |-> RenderSection(secs[k])]]

\* documents.get : the raw document payload
Render(d) ==
    [title |-> "Document",
     body |-> [content |->
        <<[endIndex |-> 1, sectionBreak |-> [sectionStyle |-> "CONTINUOUS"]]>>
        \o [k \in 1..Len(d.body) |-> RenderElement(d.body[k], ElementStart(d.body, k))]],
     headers |-> RenderSections(d.headers),
     footers |-> RenderSections(d.footers)]

\* the places an index falls into: <<k, 0, 0>> for body paragraph k,
\* <<k, r, c>> for the paragraph of cell (r, c) of table k; [from, to) is the
\* span an insertion may name, the paragraph without its newline's far side
Places(body) ==
    {[at |-> <<k, 0, 0>>, from |-> ElementStart(body, k),
      to |-> ElementStart(body, k) + Len(body[k].text) + 1] :
        k \in {j \in 1..Len(body) : body[j].kind = "paragraph"}}
    \cup UNION {UNION {{[at |-> <<k, r, c>>,
              from |-> CellStart(body[k].cells[r],
                          RowStart(body[k].cells, ElementStart(body, k), r), c) + 1,
              to |-> CellStart(body[k].cells[r],
                          RowStart(body[k].cells, ElementStart(body, k), r), c)
                     + CellSize(body[k].cells[r][c])] :
            c \in 1..Len(body[k].cells[r])} : r \in 1..Len(body[k].cells)} :
        k \in {j \in 1..Len(body) : body[j].kind = "table"}}

PlaceOf(body, i) == {p \in Places(body) : p.from <= i /\ i < p.to}

Splice(text, offset, new) ==
    SubSeq(text, 1, offset) \o new \o SubSeq(text, offset + 1, Len(text))

Cut(text, offset, n) ==
    SubSeq(text, 1, offset) \o SubSeq(text, offset + n + 1, Len(text))

TextAt(body, at) ==
    IF at[2] = 0 THEN body[at[1]].text ELSE body[at[1]].cells[at[2]][at[3]]

WithText(body, at, text) ==
    IF at[2] = 0 THEN [body EXCEPT ![at[1]].text = text]
    ELSE [body EXCEPT ![at[1]].cells[at[2]][at[3]] = text]

Accepted(d) == [ok |-> TRUE, doc |-> d, error |-> ""]
Rejected(d, why) == [ok |-> FALSE, doc |-> d, error |-> why]

\* one record of a batchUpdate applied to the document
ApplyRequest(d, req) ==
    IF "insertTable" \in DOMAIN req
    THEN LET i == req.insertTable.location.index
             here == {p \in PlaceOf(d.body, i) : p.at[2] = 0}
         IN  IF here = {} \/ req.insertTable.rows < 1 \/ req.insertTable.columns < 1
             THEN Rejected(d, "Invalid requests.insertTable: index must be inside a paragraph")
             ELSE LET p == CHOOSE x \in here : TRUE
                      k == p.at[1]
                      text == d.body[k].text
                  IN  Accepted([d EXCEPT !.body =
                          SubSeq(d.body, 1, k - 1)
                          \o <<Paragraph(SubSeq(text, 1, i - p.from)),
                               Table(BlankCells(req.insertTable.rows, req.insertTable.columns),
                                     TRUE),
                               Paragraph(SubSeq(text, i - p.from + 1, Len(text)))>>
                          \o SubSeq(d.body, k + 1, Len(d.body))])
    ELSE IF "insertText" \in DOMAIN req
    THEN LET i == req.insertText.location.index
             here == PlaceOf(d.body, i)
         IN  IF here = {}
             THEN Rejected(d, "Invalid requests.insertText: index must be inside a paragraph")
             ELSE LET p == CHOOSE x \in here : TRUE
                  IN  Accepted([d EXCEPT !.body =
                          WithText(d.body, p.at,
                              Splice(TextAt(d.body, p.at), i - p.from, req.insertText.text))])
    ELSE IF "deleteContentRange" \in DOMAIN req
    THEN LET a == req.deleteContentRange.range.startIndex
             b == req.deleteContentRange.range.endIndex
             here == {p \in PlaceOf(d.body, a) : a < b /\ b < p.to}
         IN  IF here = {}
             THEN Rejected(d, "Invalid requests.deleteContentRange: invalid range")
             ELSE LET p == CHOOSE x \in here : TRUE
                  IN  Accepted([d EXCEPT !.body =
                          WithText(d.body, p.at, Cut(TextAt(d.body, p.at), a - p.from, b - a))])
    ELSE IF "updateTextStyle" \in DOMAIN req
    THEN LET a == req.updateTextStyle.range.startIndex
             b == req.updateTextStyle.range.endIndex
         IN  IF 1 <= a /\ a < b /\ b <= BodyEnd(d.body)
             THEN Accepted(d)
             ELSE Rejected(d, "Invalid requests.updateTextStyle: invalid range")
    ELSE IF "createHeader" \in DOMAIN req
    THEN IF \E k \in 1..Len(d.headers) : d.headers[k].type = req.createHeader.type
         THEN Rejected(d, "Invalid requests.createHeader: a header of this type already exists")
         ELSE Accepted([d EXCEPT !.headers =
                  Append(d.headers, [id |-> "kix.new", type |-> req.createHeader.type,
                                     paragraphs |-> <<"">>])])
    ELSE IF "createFooter" \in DOMAIN req
    THEN IF \E k \in 1..Len(d.footers) : d.footers[k].type = req.createFooter.type
         THEN Rejected(d, "Invalid requests.createFooter: a footer of this type already exists")
         ELSE Accepted([d EXCEPT !.footers =
                  Append(d.footers, [id |-> "kix.new", type |-> req.createFooter.type,
                                     paragraphs |-> <<"">>])])
    ELSE Rejected(d, "Invalid requests: unknown request")

\* batchUpdate is one transaction: the records apply in order, each to the
\* document the previous one left, and one rejection rejects them all
RECURSIVE ApplyFrom(_, _, _, _)
ApplyFrom(original, d, reqs, k) ==
    IF k > Len(reqs) THEN Accepted(d)
    ELSE LET r == ApplyRequest(d, reqs[k])
         IN  IF r.ok THEN ApplyFrom(original, r.doc, reqs, k + 1)
             ELSE Rejected(original, r.error)

BatchUpdate(d, reqs) == ApplyFrom(d, d, reqs, 1)

(***************************************************************************)
(* validation_manager.ts : ValidationManager.                              *)
(***************************************************************************)
\* a row ceiling that lets one more row through
tableMaxRowsOffByOne == 1000 + 1

tableMaxRows == 1000
tableMaxColumns == 20

\* typeof
TypeOf(v) == IF v.t \in {"null", "array"} THEN "object" ELSE v.t

\* `${[i, j, ...]}` : an array of numbers in a template literal
NumbersToString(q) == JoinComma([k \in 1..Len(q) |-> NatToString(q[k])])

\* the positions (0-based, ascending) of the rows satisfying Test
RowsWhere(rows, Test(_)) ==
    SelectSeq([k \in 1..Len(rows) |-> k - 1], LAMBDA i : Test(rows[i + 1]))

\* the first cell, in row-major order, satisfying Test; <<0, 0>> if none
FirstCellWhere(rows, Test(_)) ==
    LET hits == UNION {{<<r, c>> : c \in {x \in 1..Len(rows[r].v) : Test(rows[r].v[x])}} :
                        r \in 1..Len(rows)}
    IN  IF hits = {} THEN <<0, 0>>
        ELSE CHOOSE rc \in hits : \A o \in hits :
                rc[1] < o[1] \/ (rc[1] = o[1] /\ rc[2] <= o[2])

validateTableData(tableData) ==
    IF ~Truthy(tableData) \/ (tableData.t = "array" /\ Len(tableData.v) = 0)
    THEN <<FALSE, "Table data cannot be empty. Required format: [['col1', 'col2'], ['row1col1', 'row1col2']]">>
    ELSE IF tableData.t # "array"
    THEN <<FALSE, "Table data must be a list, got " \o TypeOf(tableData)
                  \o ". Required format: [['col1', 'col2'], ['row1col1', 'row1col2']]">>
    ELSE LET rows == tableData.v
             nonListRows == RowsWhere(rows, LAMBDA row : row.t # "array")
             emptyRows == RowsWhere(rows, LAMBDA row : Len(row.v) = 0)
             colCounts == [k \in 1..Len(rows) |-> Len(rows[k].v)]
             bad == FirstCellWhere(rows, LAMBDA cell : cell.t # "string")
         IN  IF Len(nonListRows) > 0
             THEN <<FALSE, "All rows must be lists. Rows " \o NumbersToString(nonListRows)
                           \o " are not lists">>
             ELSE IF Len(emptyRows) > 0
             THEN <<FALSE, "Rows cannot be empty. Empty rows found at indices: "
                           \o NumbersToString(emptyRows)>>
             ELSE IF Cardinality({colCounts[k] : k \in 1..Len(rows)}) > 1
             THEN <<FALSE, "All rows must have the same number of columns. Found column counts: "
                           \o NumbersToString(colCounts)>>
             ELSE IF Len(rows) > tableMaxRows
             THEN <<FALSE, "Too many rows (" \o NatToString(Len(rows))
                           \o "). Maximum allowed: " \o NatToString(tableMaxRows)>>
             ELSE IF colCounts[1] > tableMaxColumns
             THEN <<FALSE, "Too many columns (" \o NatToString(colCounts[1])
                           \o "). Maximum allowed: " \o NatToString(tableMaxColumns)>>
             ELSE IF bad # <<0, 0>>
             THEN LET cell == rows[bad[1]].v[bad[2]]
                      where == "Cell (" \o NatToString(bad[1] - 1) \o ","
                               \o NatToString(bad[2] - 1) \o ") is "
                  IN  IF cell.t \in {"null", "undefined"}
                      THEN <<FALSE, where \o cell.t
                            \o ". All cells must be strings, use empty string '' for empty cells.">>
                      ELSE <<FALSE, where \o TypeOf(cell)
                            \o ", not string. All cells must be strings. Value: "
                            \o TemplateString(cell)>>
             ELSE <<TRUE, "Valid table data: " \o NatToString(Len(rows)) \o "x"
                          \o NatToString(colCounts[1]) \o " table format">>

(***************************************************************************)
(* Table Operation Manager.                                                *)
(***************************************************************************)
\* a field read with `|| 0`, also for a field the payload does not carry
OrZero(o, f) == IF f \in DOMAIN o THEN o[f] ELSE 0

\* a field read with `|| []`
OrEmpty(o, f) == IF f \in DOMAIN o THEN o[f] ELSE <<>>

\* findTables with the cell's own start for insertion index
findTablesAtCellStart(docData) ==
    LET body == IF "body" \in DOMAIN docData THEN OrEmpty(docData.body, "content") ELSE <<>>
        elements == SelectSeq(body, LAMBDA element : "table" \in DOMAIN element)
    IN  [k \in 1..Len(elements) |->
            LET rows == OrEmpty(elements[k].table, "tableRows")
            IN  [rows |-> Len(rows),
                 columns |-> IF Len(rows) > 0 THEN Len(OrEmpty(rows[1], "tableCells")) ELSE 0,
                 cells |-> [r \in 1..Len(rows) |->
                    [c \in 1..Len(OrEmpty(rows[r], "tableCells")) |->
                        LET cell == rows[r].tableCells[c]
                        IN  [start_index |-> cell.startIndex,
                             end_index |-> cell.endIndex,
                             insertion_index |-> OrZero(cell, "startIndex"),
                             content |-> ""]]],
                 start_index |-> elements[k].startIndex,
                 end_index |-> elements[k].endIndex]]

\* findTables: the tables of a payload, in body order
findTables(docData) ==
    LET body == IF "body" \in DOMAIN docData THEN OrEmpty(docData.body, "content") ELSE <<>>
        elements == SelectSeq(body, LAMBDA element : "table" \in DOMAIN element)
    IN  [k \in 1..Len(elements) |->
            LET rows == OrEmpty(elements[k].table, "tableRows")
            IN  [rows |-> Len(rows),
                 columns |-> IF Len(rows) > 0 THEN Len(OrEmpty(rows[1], "tableCells")) ELSE 0,
                 cells |-> [r \in 1..Len(rows) |->
                    [c \in 1..Len(OrEmpty(rows[r], "tableCells")) |->
                        LET cell == rows[r].tableCells[c]
                        IN  [start_index |-> cell.startIndex,
                             end_index |-> cell.endIndex,
                             insertion_index |-> OrZero(cell, "startIndex") + 1,
                             content |-> ""]]],
                 start_index |-> elements[k].startIndex,
                 end_index |-> elements[k].endIndex]]

\* the records populateSingleCell writes for one cell
CellRequests(insertionIndex, cellText, applyBold) ==
    <<[insertText |-> [location |-> [index |-> insertionIndex], text |-> cellText]]>>
    \o (IF applyBold
        THEN <<[updateTextStyle |->
                  [range |-> [startIndex |-> insertionIndex,
                              endIndex |-> insertionIndex + Len(cellText)],
                   textStyle |-> [bold |-> TRUE],
                   fields |-> "bold"]]>>
        ELSE <<>>)

TableMetadata(rows, columns, populated_cells, table_index) ==
    [rows |-> rows, columns |-> columns, populated_cells |-> populated_cells,
     table_index |-> table_index]

(***************************************************************************)
(* Service calls: issue, answer, await.                                    *)
(***************************************************************************)
\* a call not yet answered holds a promise, not a response
Unsettled == [kind |-> "promise", status |-> 0, json |-> TRUE]
Pending == [settled |-> FALSE, ok |-> FALSE, data |-> Unsettled, error |-> MkError("", "")]
Resolved(data) == [settled |-> TRUE, ok |-> TRUE, data |-> data, error |-> MkError("", "")]
Rejection(e) == [settled |-> TRUE, ok |-> FALSE, data |-> <<>>, error |-> e]

\* basis: the position in calls of the fetch whose payload the indices of
\* the records were computed from (0: none were)
Call(api, reqs, basis) == [api |-> api, requests |-> reqs, basis |-> basis, reply |-> Pending]

\* the run issues a call and suspends on it
Issue(call, at) ==
    /\ calls' = Append(calls, call)
    /\ inflight' = inflight \cup {Len(calls) + 1}
    /\ awaiting' = Len(calls) + 1
    /\ pc' = at

\* the run returns (or raises): nothing more is issued
Return(r) ==
    /\ result' = r
    /\ pc' = "done"
    /\ UNCHANGED <<calls, inflight, awaiting>>

\* a call whose promise is not awaited: the continuation runs at once
NotAwaited(k) == TRUE

\* `await`: the continuation runs once the awaited call has been answered
Settled(k) == k \notin inflight

Reply == calls[awaiting].reply

\* what the awaited fetch(...).then(res => res.json()) can come to: fetch
\* rejects only when no response arrives; any response, whatever its status,
\* resolves, and its body is then parsed as JSON
FetchOutcomes ==
    {[kind |-> "network_error", status |-> 0, json |-> FALSE]}
    \cup {[kind |-> "response", status |-> st, json |-> j] :
            st \in {200, 400, 500}, j \in BOOLEAN}

ServiceUnavailable == MkError("Error", "The service is currently unavailable.")

\* the service answers one outstanding call
ServiceAnswers ==
    /\ \E k \in inflight :
        /\ inflight' = inflight \ {k}
        /\ \/ /\ calls[k].api = "fetch"
              /\ \E out \in FetchOutcomes :
                    calls' = [calls EXCEPT ![k].reply = Resolved(out)]
              /\ UNCHANGED <<doc, failures>>
           \/ /\ calls[k].api = "documents.get"
              /\ calls' = [calls EXCEPT ![k].reply = Resolved(Render(doc))]
              /\ UNCHANGED <<doc, failures>>
           \/ /\ calls[k].api = "documents.batchUpdate"
              /\ LET r == BatchUpdate(doc, calls[k].requests)
                 IN  /\ doc' = r.doc
                     /\ calls' = [calls EXCEPT ![k].reply =
                            IF r.ok THEN Resolved([replies |-> Len(calls[k].requests)])
                            ELSE Rejection(MkError("Error", r.error))]
              /\ UNCHANGED failures
           \/ /\ calls[k].api \in {"documents.get", "documents.batchUpdate"}
              /\ failures < MaxFailures
              /\ failures' = failures + 1
              /\ calls' = [calls EXCEPT ![k].reply = Rejection(ServiceUnavailable)]
              /\ UNCHANGED doc
    /\ UNCHANGED <<op, args, pc, awaiting, result, requests, operationDescriptions,
                   freshTables, rowIdx, colIdx, populationCount>>
    /\ UNCHANGED thinkingVars

NoDocument == [body |-> <<>>, headers |-> <<>>, footers |-> <<>>]

\* the state every run starts in, whatever the operation
Fresh ==
    /\ pc = "start"
    /\ calls = <<>>
    /\ inflight = {}
    /\ awaiting = 0
    /\ result = NoResult
    /\ failures = 0
    /\ requests = <<>>
    /\ operationDescriptions = <<>>
    /\ freshTables = [tables |-> <<>>, from |-> 0]
    /\ rowIdx = 0
    /\ colIdx = 0
    /\ populationCount = 0
    /\ redis = Null
    /\ thinking = <<>>

(***************************************************************************)
(* executeBatchOperations.                                                 *)
(***************************************************************************)
InitBatch ==
    /\ op = "executeBatchOperations"
    /\ \E n \in 0..MaxOps : \E q \in [1..n -> CoreOps] :
        \/ args = [documentId |-> "doc", operations |-> Arr(q)]
        \/ \E k \in 1..n : \E x \in BatchOps :
                args = [documentId |-> "doc", operations |-> Arr([q EXCEPT ![k] = x])]
        \/ \E o \in {Null, Undefined} : args = [documentId |-> "doc", operations |-> o]
    /\ doc = NoDocument
    /\ Fresh

\* a list that is never taken for empty
NeverEmpty(operations) == FALSE

\* `operations.length === 0` of the up-front check
NoOperations(operations) == Len(operations.v) = 0

\* from the call up to the first await that leaves the engine: the length
\* read of the log line, the empty-list check, validation and building, and
\* the issue of the one fetch
ExecuteBatchOperations ==
    /\ op = "executeBatchOperations" /\ pc = "start"
    /\ LET operations == args.operations
           failed(message, n) == Result(FALSE, message, BatchMetadata(n, 0, 0, <<>>))
       IN  IF operations.t \in {"null", "undefined"}
           THEN /\ Return(Raised(MkError("TypeError",
                        "Cannot read properties of " \o operations.t \o " (reading 'length')")))
                /\ UNCHANGED <<requests, operationDescriptions>>
           ELSE IF NoOperations(operations)
           THEN /\ Return(failed(
                        "No operations provided. Please provide at least one operation.", 0))
                /\ UNCHANGED <<requests, operationDescriptions>>
           ELSE LET b == validateAndBuildRequests(operations.v)
                IN  IF b.threw
                    THEN /\ Return(failed("Batch operation failed: " \o ErrorToString(b.err),
                                          Len(operations.v)))
                         /\ UNCHANGED <<requests, operationDescriptions>>
                    ELSE IF Len(b.val.requests) = 0
                    THEN /\ Return(failed("No valid requests could be built from operations",
                                          Len(operations.v)))
                         /\ UNCHANGED <<requests, operationDescriptions>>
                    ELSE /\ requests' = b.val.requests
                         /\ operationDescriptions' = b.val.operationDescriptions
                         /\ Issue(Call("fetch", b.val.requests, 0), "await_batch")
                         /\ UNCHANGED result
    /\ UNCHANGED <<op, args, doc, failures, freshTables, rowIdx, colIdx, populationCount>>
    /\ UNCHANGED thinkingVars

\* the awaited fetch has settled: the result is processed, or the catch
\* block turns the rejection into a failure result
BatchSettled ==
    /\ op = "executeBatchOperations" /\ pc = "await_batch" /\ Settled(awaiting)
    /\ LET out == Reply.data
           n == Len(args.operations.v)
           failure(e) == Result(FALSE, "Batch operation failed: " \o ErrorToString(e),
                                BatchMetadata(n, 0, 0, <<>>))
           repliesCount == IF out.status = 200 THEN Len(requests) ELSE 0
       IN  Return(
             IF out.kind = "network_error"
             THEN failure(MkError("TypeError", "fetch failed"))
             ELSE IF ~out.json
             THEN failure(MkError("SyntaxError", "Unexpected token < in JSON at position 0"))
             ELSE Result(TRUE,
                     "Successfully executed " \o NatToString(n) \o " operations ("
                     \o buildOperationSummary(operationDescriptions) \o ")",
                     BatchMetadata(n, Len(requests), repliesCount,
                         SubSeq(operationDescriptions, 1,
                             IF Len(operationDescriptions) < 5
                             THEN Len(operationDescriptions) ELSE 5))))
    /\ UNCHANGED <<op, args, doc, failures, requests, operationDescriptions,
                   freshTables, rowIdx, colIdx, populationCount>>
    /\ UNCHANGED thinkingVars

(***************************************************************************)
(* Inputs of the table operations.                                         *)
(***************************************************************************)
\* the text of cell (r, c), 1-based: a header in row 1, data below
CellText(r, c) ==
    IF r = 1 THEN "H" \o NatToString(c) ELSE "r" \o NatToString(r) \o "c" \o NatToString(c)

\* an R x C grid of strings with the cell at `blank` (if any) left empty
Grid(R, C, blank) ==
    Arr([r \in 1..R |-> Arr([c \in 1..C |->
            IF <<r, c>> = blank THEN Str("") ELSE Str(CellText(r, c))])])

ValidTables ==
    UNION {UNION {{Grid(R, C, b) : b \in {<<0, 0>>} \cup ((1..R) \X (1..C))} :
                    C \in 1..MaxCols} : R \in 1..MaxRows}

InvalidTables ==
    {Null, Undefined, Arr(<<>>),
     Arr(<<Arr(<<Str("a"), Str("b")>>), Arr(<<Str("c")>>)>>),
     Arr(<<Arr(<<Str("a"), Null>>)>>),
     Arr(<<Arr(<<Str("a")>>), Arr(<<>>)>>),
     Arr(<<Arr(<<Str("a")>>), Str("bc")>>),
     Arr(<<Arr(<<Num(5)>>)>>)}

DocPlain ==
    [body |-> <<Paragraph("abcd")>>, headers |-> <<>>, footers |-> <<>>]
DocSmallTable ==
    [body |-> <<Paragraph("ab"), Table(<<<<"x">>>>, FALSE), Paragraph("cd")>>,
     headers |-> <<>>, footers |-> <<>>]
DocWideTable ==
    [body |-> <<Paragraph("ab"), Table(<<<<"x", "">>, <<"y", "z">>>>, FALSE), Paragraph("cd")>>,
     headers |-> <<>>, footers |-> <<>>]

TableDocs == {DocPlain, DocSmallTable, DocWideTable}

\* an index inside each body paragraph of the document
InsertionIndexes(d) ==
    {ElementStart(d.body, k) + 1 : k \in {j \in 1..Len(d.body) : d.body[j].kind = "paragraph"}}

(***************************************************************************)
(* createAndPopulateTable.                                                 *)
(***************************************************************************)
InitCreate ==
    /\ op = "createAndPopulateTable"
    /\ \E d \in TableDocs : \E i \in InsertionIndexes(d) : \E bold \in BOOLEAN :
       \E data \in ValidTables \cup InvalidTables :
        /\ doc = d
        /\ args = [documentId |-> "doc", tableData |-> data, index |-> i,
                   boldHeaders |-> bold]
    /\ Fresh

NoCell == <<-1, -1>>

\* the next cell the population loops stop at, from (r, c) on in row-major
\* order (0-based): the first one whose text is not skipped by `!cellText`
NextCell(rows, r, c) ==
    LET later == {rc \in UNION {{<<i - 1, j - 1>> : j \in 1..Len(rows[i].v)} :
                                    i \in 1..Len(rows)} :
                    /\ rc[1] > r \/ (rc[1] = r /\ rc[2] >= c)
                    /\ Truthy(rows[rc[1] + 1].v[rc[2] + 1])}
    IN  IF later = {} THEN NoCell
        ELSE CHOOSE rc \in later : \A o \in later :
                rc[1] < o[1] \/ (rc[1] = o[1] /\ rc[2] <= o[2])

\* a fetch through getDocumentTables: the tables, and the call they came from
Snapshot(k) == [tables |-> findTables(calls[k].reply.data), from |-> k]

\* the tables step 2 fetched, kept for the whole population
StepTwoSnapshot == freshTables

\* populateSingleCell reads the tables of the fetch it has just awaited
CellSnapshot == Snapshot(awaiting)

\* a cell counted whether or not its write resolved
PopulatedRegardless(reply) == TRUE

\* populateSingleCell reports a cell as populated iff its write resolved
Populated(reply) == reply.ok

\* populateTableCells from cell (r, c) on, with `count` cells populated so
\* far: it issues the next cell's fetch, or returns and the result is built
PopulateTableCells(fresh, count, r, c) ==
    LET tableData == args.tableData.v
        rows == Len(tableData)
        cols == Len(tableData[1].v)
        nxt == NextCell(tableData, r, c)
    IN  /\ populationCount' = count
        /\ IF nxt = NoCell
           THEN /\ Return(Result(TRUE,
                        "Successfully created " \o NatToString(rows) \o "x" \o NatToString(cols)
                        \o " table and populated " \o NatToString(count) \o " cells",
                        TableMetadata(rows, cols, count, Len(fresh.tables) - 1)))
                /\ UNCHANGED <<rowIdx, colIdx>>
           ELSE /\ rowIdx' = nxt[1]
                /\ colIdx' = nxt[2]
                /\ Issue(Call("documents.get", <<>>, 0), "await_cell_tables")
                /\ UNCHANGED result

Failure(message) == [status |-> "returned", success |-> FALSE, message |-> message]

\* entry: the log line, validation, and the issue of the insert-table
CreateAndPopulateTable ==
    /\ op = "createAndPopulateTable" /\ pc = "start"
    /\ LET tableData == args.tableData
           v == validateTableData(tableData)
       IN  IF tableData.t \in {"null", "undefined"}
           THEN Return(Raised(MkError("TypeError",
                    "Cannot read properties of " \o tableData.t \o " (reading 'length')")))
           ELSE IF ~v[1]
           THEN Return(Failure("Invalid table data: " \o v[2]))
           ELSE /\ Issue(Call("documents.batchUpdate",
                              <<[insertTable |-> [location |-> [index |-> args.index],
                                                  rows |-> Len(tableData.v),
                                                  columns |-> Len(tableData.v[1].v)]]>>, 0),
                         "await_create")
                /\ UNCHANGED result
    /\ UNCHANGED <<op, args, doc, failures, requests, operationDescriptions,
                   freshTables, rowIdx, colIdx, populationCount>>
    /\ UNCHANGED thinkingVars

\* createEmptyTable has settled: step 2 issues the fresh fetch
TableCreated ==
    /\ op = "createAndPopulateTable" /\ pc = "await_create" /\ Settled(awaiting)
    /\ IF ~Reply.ok
       THEN Return(Failure("Table creation failed: " \o ErrorToString(Reply.error)))
       ELSE Issue(Call("documents.get", <<>>, 0), "await_fresh") /\ UNCHANGED result
    /\ UNCHANGED <<op, args, doc, failures, requests, operationDescriptions,
                   freshTables, rowIdx, colIdx, populationCount>>
    /\ UNCHANGED thinkingVars

\* the fresh fetch has settled: step 3 starts the population loop
FreshTablesFetched ==
    /\ op = "createAndPopulateTable" /\ pc = "await_fresh" /\ Settled(awaiting)
    /\ IF ~Reply.ok
       THEN /\ Return(Failure("Table creation failed: " \o ErrorToString(Reply.error)))
            /\ UNCHANGED <<freshTables, rowIdx, colIdx, populationCount>>
       ELSE IF Len(Snapshot(awaiting).tables) = 0
       THEN /\ Return(Failure("Could not find table after creation"))
            /\ UNCHANGED <<freshTables, rowIdx, colIdx, populationCount>>
       ELSE /\ freshTables' = Snapshot(awaiting)
            /\ PopulateTableCells(Snapshot(awaiting), 0, 0, 0)
    /\ UNCHANGED <<op, args, doc, failures, requests, operationDescriptions>>
    /\ UNCHANGED thinkingVars

\* populateSingleCell's fetch has settled: the cell is looked up in the last
\* table and its write is issued, or the cell is given up and the loop goes on
CellTablesFetched ==
    /\ op = "createAndPopulateTable" /\ pc = "await_cell_tables" /\ Settled(awaiting)
    /\ LET tables == CellSnapshot.tables
           cellText == args.tableData.v[rowIdx + 1].v[colIdx + 1].v
       IN  IF ~Reply.ok \/ Len(tables) = 0
           THEN PopulateTableCells(freshTables, populationCount, rowIdx, colIdx + 1)
           ELSE LET cells == tables[Len(tables)].cells
                IN  IF rowIdx >= Len(cells) \/ colIdx >= Len(cells[rowIdx + 1])
                    THEN PopulateTableCells(freshTables, populationCount, rowIdx, colIdx + 1)
                    ELSE /\ Issue(Call("documents.batchUpdate",
                                CellRequests(cells[rowIdx + 1][colIdx + 1].insertion_index,
                                             cellText, args.boldHeaders /\ rowIdx = 0),
                                CellSnapshot.from),
                              "await_cell_write")
                         /\ UNCHANGED <<result, rowIdx, colIdx, populationCount>>
    /\ UNCHANGED <<op, args, doc, failures, requests, operationDescriptions, freshTables>>
    /\ UNCHANGED thinkingVars

\* populateSingleCell's write has settled: the cell is counted if it
\* resolved, and the loop goes on either way
CellWritten ==
    /\ op = "createAndPopulateTable" /\ pc = "await_cell_write" /\ Settled(awaiting)
    /\ PopulateTableCells(freshTables,
                          populationCount + (IF Populated(Reply) THEN 1 ELSE 0),
                          rowIdx, colIdx + 1)
    /\ UNCHANGED <<op, args, doc, failures, requests, operationDescriptions, freshTables>>
    /\ UNCHANGED thinkingVars

(***************************************************************************)
(* populateExistingTable.                                                  *)
(***************************************************************************)
\* data whose second row is wider than its first
RaggedWide == Arr(<<Arr(<<Str("a")>>), Arr(<<Str("b"), Str("c"), Str("d")>>)>>)

InitPopulate ==
    /\ op = "populateExistingTable"
    /\ \E d \in TableDocs : \E ti \in 0..1 : \E clear \in BOOLEAN :
       \E data \in ValidTables \cup {Null, Arr(<<>>), RaggedWide} :
        /\ doc = d
        /\ args = [documentId |-> "doc", tableIndex |-> ti, tableData |-> data,
                   clearExisting |-> clear]
    /\ Fresh

\* populateExistingTableCells reads the tables of the fetch it has just awaited
ExistingCellSnapshot == Snapshot(awaiting)

\* populateExistingTableCells from cell (r, c) on
PopulateExistingTableCells(fresh, count, r, c) ==
    LET tableInfo == fresh.tables[args.tableIndex + 1]
        nxt == NextCell(args.tableData.v, r, c)
    IN  /\ populationCount' = count
        /\ IF nxt = NoCell
           THEN /\ Return(Result(TRUE,
                        "Successfully populated " \o NatToString(count)
                        \o " cells in existing table",
                        TableMetadata(tableInfo.rows, tableInfo.columns, count,
                                      args.tableIndex)))
                /\ UNCHANGED <<rowIdx, colIdx>>
           ELSE /\ rowIdx' = nxt[1]
                /\ colIdx' = nxt[2]
                /\ Issue(Call("documents.get", <<>>, 0), "await_existing_cell")
                /\ UNCHANGED result

\* entry: the first fetch is issued
PopulateExistingTable ==
    /\ op = "populateExistingTable" /\ pc = "start"
    /\ Issue(Call("documents.get", <<>>, 0), "await_existing")
    /\ UNCHANGED <<op, args, result, doc, failures, requests, operationDescriptions,
                   freshTables, rowIdx, colIdx, populationCount>>
    /\ UNCHANGED thinkingVars

\* the first fetch has settled: the table is looked up, the data's size is
\* checked against it, and the population loop starts
ExistingTablesFetched ==
    /\ op = "populateExistingTable" /\ pc = "await_existing" /\ Settled(awaiting)
    /\ LET tables == Snapshot(awaiting).tables
           tableData == args.tableData
           caught(e) == Failure("Failed to populate existing table: " \o ErrorToString(e))
           stop(r) == Return(r) /\ UNCHANGED <<freshTables, rowIdx, colIdx, populationCount>>
       IN  IF ~Reply.ok THEN stop(caught(Reply.error))
           ELSE IF args.tableIndex >= Len(tables)
           THEN stop(Failure("Table index " \o NatToString(args.tableIndex)
                        \o " not found. Document has " \o NatToString(Len(tables))
                        \o " tables"))
           ELSE IF tableData.t \in {"null", "undefined"}
           THEN stop(caught(MkError("TypeError",
                    "Cannot read properties of " \o tableData.t \o " (reading 'length')")))
           ELSE LET tableInfo == tables[args.tableIndex + 1]
                    dataRows == Len(tableData.v)
                    dataCols == IF dataRows = 0 THEN 0 ELSE Len(tableData.v[1].v)
                IN  IF dataRows > tableInfo.rows \/ dataCols > tableInfo.columns
                    THEN stop(Failure("Data (" \o NatToString(dataRows) \o "x"
                                \o NatToString(dataCols) \o ") exceeds table dimensions ("
                                \o NatToString(tableInfo.rows) \o "x"
                                \o NatToString(tableInfo.columns) \o ")"))
                    ELSE /\ freshTables' = Snapshot(awaiting)
                         /\ PopulateExistingTableCells(Snapshot(awaiting), 0, 0, 0)
    /\ UNCHANGED <<op, args, doc, failures, requests, operationDescriptions>>
    /\ UNCHANGED thinkingVars

\* a cell's fetch has settled: a failed fetch leaves the loop through the
\* operation's catch; a vanished table breaks out of the row; a cell the
\* table does not have is skipped; otherwise the cell's write is issued
ExistingCellTablesFetched ==
    /\ op = "populateExistingTable" /\ pc = "await_existing_cell" /\ Settled(awaiting)
    /\ LET tables == ExistingCellSnapshot.tables
           cellText == args.tableData.v[rowIdx + 1].v[colIdx + 1].v
       IN  IF ~Reply.ok
           THEN /\ Return(Failure("Failed to populate existing table: "
                                  \o ErrorToString(Reply.error)))
                /\ UNCHANGED <<rowIdx, colIdx, populationCount>>
           ELSE IF args.tableIndex >= Len(tables)
           THEN PopulateExistingTableCells(freshTables, populationCount, rowIdx + 1, 0)
           ELSE LET cells == tables[args.tableIndex + 1].cells
                IN  IF rowIdx >= Len(cells) \/ colIdx >= Len(cells[rowIdx + 1])
                    THEN PopulateExistingTableCells(freshTables, populationCount,
                                                    rowIdx, colIdx + 1)
                    ELSE /\ Issue(Call("documents.batchUpdate",
                                <<[insertText |->
                                    [location |->
                                        [index |-> cells[rowIdx + 1][colIdx + 1].end_index - 1],
                                     text |-> cellText]]>>,
                                ExistingCellSnapshot.from),
                              "await_existing_write")
                         /\ UNCHANGED <<result, rowIdx, colIdx, populationCount>>
    /\ UNCHANGED <<op, args, doc, failures, requests, operationDescriptions, freshTables>>
    /\ UNCHANGED thinkingVars

\* a cell's write has settled: counted if it resolved, logged if not
ExistingCellWritten ==
    /\ op = "populateExistingTable" /\ pc = "await_existing_write" /\ Settled(awaiting)
    /\ PopulateExistingTableCells(freshTables,
                                  populationCount + (IF Reply.ok THEN 1 ELSE 0),
                                  rowIdx, colIdx + 1)
    /\ UNCHANGED <<op, args, doc, failures, requests, operationDescriptions, freshTables>>
    /\ UNCHANGED thinkingVars

(***************************************************************************)
(* validation_manager.ts : HeaderFooterManager.                            *)
(***************************************************************************)
UpperCase == "ABCDEFGHIJKLMNOPQRSTUVWXYZ"
LowerCase == "abcdefghijklmnopqrstuvwxyz"

\* String.prototype.toLowerCase
RECURSIVE ToLowerCase(_)
ToLowerCase(s) ==
    IF s = "" THEN ""
    ELSE LET ch == SubSeq(s, 1, 1)
             at == {k \in 1..Len(UpperCase) : SubSeq(UpperCase, k, k) = ch}
         IN  (IF at = {} THEN ch
              ELSE LET k == CHOOSE x \in at : TRUE IN SubSeq(LowerCase, k, k))
             \o ToLowerCase(SubSeq(s, 2, Len(s)))

\* a section made up where the document has none: one empty paragraph
FabricatedSection ==
    [found |-> TRUE, section |-> [content |-> <<RenderParagraph("", 0)>>], id |-> "kix.new"]

NoSection == [found |-> FALSE, section |-> <<>>, id |-> ""]
FoundSection(entry) == [found |-> TRUE, section |-> entry.section, id |-> entry.id]

targetPatterns(headerFooterType) ==
    CASE headerFooterType = "DEFAULT" -> <<"default", "kix">>
      [] headerFooterType = "FIRST_PAGE" -> <<"first", "firstpage">>
      [] headerFooterType = "EVEN_PAGE" -> <<"even", "evenpage">>
      [] headerFooterType = "FIRST_PAGE_ONLY" -> <<"first", "firstpage">>
      [] OTHER -> <<>>

\* the first entry of the sections, in their order, that passes the test
FirstEntry(sections, Test(_)) ==
    LET hits == {k \in 1..Len(sections) : Test(sections[k])}
    IN  IF hits = {} THEN 0 ELSE CHOOSE k \in hits : \A j \in hits : k <= j

\* the same search with the id patterns tried before the exact type
findTargetSectionByIdFirst(docData, sectionType, headerFooterType) ==
    LET sections == IF sectionType = "header" THEN docData.headers ELSE docData.footers
        exact == FirstEntry(sections,
                    LAMBDA e : "type" \in DOMAIN e.section /\ e.section.type = headerFooterType)
        patterns == targetPatterns(headerFooterType)
        matching(k) == FirstEntry(sections,
                          LAMBDA e : Includes(ToLowerCase(e.id), patterns[k]))
        hitPatterns == {k \in 1..Len(patterns) : matching(k) # 0}
    IN  IF hitPatterns # {}
        THEN FoundSection(sections[matching(CHOOSE k \in hitPatterns :
                                              \A j \in hitPatterns : k <= j)])
        ELSE IF exact # 0 THEN FoundSection(sections[exact])
        ELSE IF Len(sections) > 0 THEN FoundSection(sections[1])
        ELSE NoSection

findTargetSection(docData, sectionType, headerFooterType) ==
    LET sections == IF sectionType = "header" THEN docData.headers ELSE docData.footers
        exact == FirstEntry(sections,
                    LAMBDA e : "type" \in DOMAIN e.section /\ e.section.type = headerFooterType)
        patterns == targetPatterns(headerFooterType)
        matching(k) == FirstEntry(sections,
                          LAMBDA e : Includes(ToLowerCase(e.id), patterns[k]))
        hitPatterns == {k \in 1..Len(patterns) : matching(k) # 0}
    IN  IF exact # 0 THEN FoundSection(sections[exact])
        ELSE IF hitPatterns # {}
        THEN FoundSection(sections[matching(CHOOSE k \in hitPatterns :
                                              \A j \in hitPatterns : k <= j)])
        ELSE IF Len(sections) > 0 THEN FoundSection(sections[1])
        ELSE NoSection

\* the records replaceSectionContent submits; none when the section has no
\* paragraph to write into
SectionRequests(section, newContent) ==
    LET contentElements == section.content
        paras == {k \in 1..Len(contentElements) : "paragraph" \in DOMAIN contentElements[k]}
    IN  IF paras = {} THEN <<>>
        ELSE LET firstPara == contentElements[CHOOSE k \in paras : \A j \in paras : k <= j]
                 startIndex == firstPara.startIndex
                 endIndex == firstPara.endIndex
             IN  (IF endIndex > startIndex
                  THEN <<[deleteContentRange |->
                            [range |-> [startIndex |-> startIndex, endIndex |-> endIndex - 1]]]>>
                  ELSE <<>>)
                 \o <<[insertText |-> [location |-> [index |-> startIndex],
                                       text |-> newContent]]>>

HeaderSection(id, type, paragraphs) == [id |-> id, type |-> type, paragraphs |-> paragraphs]

DocHeader ==
    [body |-> <<Paragraph("abcd")>>,
     headers |-> <<HeaderSection("kix.hdr1", "", <<"Old">>)>>, footers |-> <<>>]
DocEmptyHeader ==
    [body |-> <<Paragraph("abcd")>>,
     headers |-> <<HeaderSection("kix.hdr1", "", <<"">>)>>, footers |-> <<>>]
DocBareHeader ==
    [body |-> <<Paragraph("abcd")>>,
     headers |-> <<HeaderSection("kix.hdr1", "", <<>>)>>, footers |-> <<>>]
DocTypedHeaders ==
    [body |-> <<Paragraph("abcd")>>,
     headers |-> <<HeaderSection("kix.FirstPage1", "", <<"F">>),
                   HeaderSection("hdr.even", "", <<"E">>),
                   HeaderSection("h3", "DEFAULT", <<"D">>)>>,
     footers |-> <<HeaderSection("ftr", "", <<"foot">>)>>]

HeaderDocs == {DocPlain, DocHeader, DocEmptyHeader, DocBareHeader, DocTypedHeaders}
SectionTypes == {"header", "footer", "body"}
HeaderFooterTypes == {"DEFAULT", "FIRST_PAGE", "EVEN_PAGE", "FIRST_PAGE_ONLY", "BOGUS"}

InitUpdateHeaderFooter ==
    /\ op = "updateHeaderFooterContent"
    /\ \E d \in HeaderDocs : \E st \in SectionTypes : \E hft \in HeaderFooterTypes :
        /\ doc = d
        /\ args = [documentId |-> "doc", sectionType |-> st, content |-> "New",
                   headerFooterType |-> hft]
    /\ Fresh

InitCreateHeaderFooter ==
    /\ op = "createHeaderFooter"
    /\ \E d \in HeaderDocs : \E st \in SectionTypes : \E hft \in HeaderFooterTypes :
        /\ doc = d
        /\ args = [documentId |-> "doc", sectionType |-> st, headerFooterType |-> hft]
    /\ Fresh

HeaderFooterUnchanged ==
    UNCHANGED <<op, args, doc, failures, requests, operationDescriptions,
                freshTables, rowIdx, colIdx, populationCount>>

\* entry: the two argument checks, then the document fetch
UpdateHeaderFooterContent ==
    /\ op = "updateHeaderFooterContent" /\ pc = "start"
    /\ IF args.sectionType \notin {"header", "footer"}
       THEN Return(Failure("section_type must be 'header' or 'footer'"))
       ELSE IF args.headerFooterType \notin {"DEFAULT", "FIRST_PAGE_ONLY", "EVEN_PAGE"}
       THEN Return(Failure(
                "header_footer_type must be 'DEFAULT', 'FIRST_PAGE_ONLY', or 'EVEN_PAGE'"))
       ELSE Issue(Call("documents.get", <<>>, 0), "await_section") /\ UNCHANGED result
    /\ HeaderFooterUnchanged
    /\ UNCHANGED thinkingVars

\* the fetch has settled: the section is chosen and its replacement submitted
SectionFetched ==
    /\ op = "updateHeaderFooterContent" /\ pc = "await_section" /\ Settled(awaiting)
    /\ IF ~Reply.ok
       THEN Return(Failure("Failed to update " \o args.sectionType \o ": "
                           \o ErrorToString(Reply.error)))
       ELSE LET target == findTargetSection(Reply.data, args.sectionType,
                                            args.headerFooterType)
            IN  IF ~target.found
                THEN Return(Failure("No " \o args.sectionType
                        \o " found in document. Please create a " \o args.sectionType
                        \o " first in Google Docs."))
                ELSE IF SectionRequests(target.section, args.content) = <<>>
                THEN Return(Failure("Could not find content structure in "
                                    \o args.sectionType \o " to update"))
                ELSE /\ Issue(Call("documents.batchUpdate",
                                   SectionRequests(target.section, args.content),
                                   awaiting),
                              "await_section_write")
                     /\ UNCHANGED result
    /\ HeaderFooterUnchanged
    /\ UNCHANGED thinkingVars

\* the replacement has settled: a rejected write is reported as a failure
SectionWritten ==
    /\ op = "updateHeaderFooterContent" /\ pc = "await_section_write" /\ Settled(awaiting)
    /\ IF Reply.ok
       THEN Return([status |-> "returned", success |-> TRUE,
                    message |-> "Updated " \o args.sectionType \o " content in document "
                                \o args.documentId])
       ELSE Return(Failure("Could not find content structure in "
                           \o args.sectionType \o " to update"))
    /\ HeaderFooterUnchanged
    /\ UNCHANGED thinkingVars

typeMapping(headerFooterType) ==
    IF headerFooterType = "FIRST_PAGE_ONLY" THEN "FIRST_PAGE" ELSE headerFooterType

\* entry: the two argument checks, then the creation request
CreateHeaderFooter ==
    /\ op = "createHeaderFooter" /\ pc = "start"
    /\ LET apiType == typeMapping(args.headerFooterType)
       IN  IF args.sectionType \notin {"header", "footer"}
           THEN Return(Failure("section_type must be 'header' or 'footer'"))
           ELSE IF apiType \notin {"DEFAULT", "FIRST_PAGE", "EVEN_PAGE"}
           THEN Return(Failure(
                    "header_footer_type must be 'DEFAULT', 'FIRST_PAGE', or 'EVEN_PAGE'"))
           ELSE /\ Issue(Call("documents.batchUpdate",
                              <<IF args.sectionType = "header"
                                THEN [createHeader |-> [type |-> apiType]]
                                ELSE [createFooter |-> [type |-> apiType]]>>,
                              0),
                         "await_section_create")
                /\ UNCHANGED result
    /\ HeaderFooterUnchanged
    /\ UNCHANGED thinkingVars

\* the creation has settled
SectionCreated ==
    /\ op = "createHeaderFooter" /\ pc = "await_section_create" /\ Settled(awaiting)
    /\ LET apiType == typeMapping(args.headerFooterType)
           errorMsg == ErrorToString(Reply.error)
       IN  IF Reply.ok
           THEN Return([status |-> "returned", success |-> TRUE,
                        message |-> "Successfully created " \o args.sectionType
                                    \o " with type " \o apiType])
           ELSE IF Includes(ToLowerCase(errorMsg), "already exists")
           THEN Return(Failure("A " \o args.sectionType \o " of type " \o apiType
                               \o " already exists in the document"))
           ELSE Return(Failure("Failed to create " \o args.sectionType \o ": " \o errorMsg))
    /\ HeaderFooterUnchanged
    /\ UNCHANGED thinkingVars

(***************************************************************************)
(* ValidationManager.validateTableData on its own.                         *)
(***************************************************************************)
\* what is wrong with one cell or one row of an otherwise rectangular matrix
Defects == {"none", "null", "undefined", "number", "boolean", "longRow", "emptyRow"}

DefectCell(defect, text) ==
    CASE defect = "null" -> Null
      [] defect = "undefined" -> Undefined
      [] defect = "number" -> Num(5)
      [] defect = "boolean" -> Bool(TRUE)
      [] OTHER -> Str(text)

\* an R x C matrix of strings with the defect at row r (and column c)
Matrix(R, C, defect, r, c) ==
    Arr([i \in 1..R |->
        IF i = r /\ defect = "emptyRow" THEN Arr(<<>>)
        ELSE IF i = r /\ defect = "longRow"
        THEN Arr([j \in 1..(C + 1) |-> Str(CellText(i, j))])
        ELSE Arr([j \in 1..C |->
                IF i = r /\ j = c THEN DefectCell(defect, CellText(i, j))
                ELSE Str(CellText(i, j))])])

\* row and column counts at, just below and just above the ceilings
RowCounts == {1, MaxRows, tableMaxRows, tableMaxRows + 1}
ColumnCounts == {1, MaxCols, tableMaxColumns, tableMaxColumns + 1}

InitValidate ==
    /\ op = "validateTableData"
    /\ doc = NoDocument
    /\ \/ \E R \in RowCounts : \E C \in ColumnCounts : \E defect \in Defects :
          \E r \in {1, R} : \E c \in {1, C} :
            args = [tableData |-> Matrix(R, C, defect, r, c)]
       \/ \E data \in InvalidTables : args = [tableData |-> data]
    /\ Fresh

\* the call and its [isValid, message] pair
ValidateTableData ==
    /\ op = "validateTableData" /\ pc = "start"
    /\ LET v == validateTableData(args.tableData)
       IN  Return([status |-> "returned", valid |-> v[1], message |-> v[2]])
    /\ UNCHANGED <<op, args, doc, failures, requests, operationDescriptions,
                   freshTables, rowIdx, colIdx, populationCount>>
    /\ UNCHANGED thinkingVars

(***************************************************************************)
(* docs_structure.ts : the parser's body list and getNextParagraphIndex.   *)
(***************************************************************************)
\* `textParts.join('')`
RECURSIVE Concat(_)
Concat(parts) == IF Len(parts) = 0 THEN "" ELSE parts[1] \o Concat(Tail(parts))

\* extractParagraphText: the contents of the paragraph's text runs
extractParagraphText(paragraph) ==
    LET runs == SelectSeq(OrEmpty(paragraph, "elements"),
                          LAMBDA element : "textRun" \in DOMAIN element)
    IN  Concat([k \in 1..Len(runs) |->
                    IF "content" \in DOMAIN runs[k].textRun THEN runs[k].textRun.content
                    ELSE ""])

\* extractCellText: the text of the cell's paragraphs
extractCellText(cell) ==
    LET paragraphs == SelectSeq(OrEmpty(cell, "content"),
                                LAMBDA element : "paragraph" \in DOMAIN element)
    IN  Concat([k \in 1..Len(paragraphs) |-> extractParagraphText(paragraphs[k].paragraph)])

\* the same loop reading the first text run of the cell's first paragraph
insertionIndexOfFirstTextRun(cell) ==
    LET paragraphs == SelectSeq(OrEmpty(cell, "content"),
                                LAMBDA element : "paragraph" \in DOMAIN element)
        runs == IF Len(paragraphs) = 0 THEN <<>>
                ELSE SelectSeq(OrEmpty(paragraphs[1].paragraph, "elements"),
                               LAMBDA element : "textRun" \in DOMAIN element)
    IN  IF Len(runs) > 0 /\ "startIndex" \in DOMAIN runs[1] THEN runs[1].startIndex
        ELSE OrZero(cell, "startIndex") + 1

\* the same loop falling back on the cell's start itself
insertionIndexAtCellStart(cell) ==
    LET found == SelectSeq(OrEmpty(cell, "content"), LAMBDA element :
                    /\ "paragraph" \in DOMAIN element
                    /\ Len(OrEmpty(element.paragraph, "elements")) > 0
                    /\ "startIndex" \in DOMAIN element.paragraph.elements[1])
    IN  IF Len(found) > 0 THEN found[1].paragraph.elements[1].startIndex
        ELSE OrZero(cell, "startIndex")

\* the loop over a cell's content: the start of the first element of the
\* first paragraph that has elements and whose first element carries a start
\* index; the cell's start + 1 when the loop finds none
insertionIndex(cell) ==
    LET found == SelectSeq(OrEmpty(cell, "content"), LAMBDA element :
                    /\ "paragraph" \in DOMAIN element
                    /\ Len(OrEmpty(element.paragraph, "elements")) > 0
                    /\ "startIndex" \in DOMAIN element.paragraph.elements[1])
    IN  IF Len(found) > 0 THEN found[1].paragraph.elements[1].startIndex
        ELSE OrZero(cell, "startIndex") + 1

\* parseTableCells: the cells of a table, row by row
parseTableCells(table) ==
    LET tableRows == OrEmpty(table, "tableRows")
    IN  [r \in 1..Len(tableRows) |->
            LET tableCells == OrEmpty(tableRows[r], "tableCells")
            IN  [c \in 1..Len(tableCells) |->
                    LET cell == tableCells[c]
                    IN  [row |-> r - 1, column |-> c - 1,
                         start_index |-> OrZero(cell, "startIndex"),
                         end_index |-> OrZero(cell, "endIndex"),
                         insertion_index |-> insertionIndex(cell),
                         content |-> extractCellText(cell),
                         content_elements |-> OrEmpty(cell, "content")]]]

\* parseElement: type, range and contents of a body element; Null for an
\* element of no known kind
parseElement(element) ==
    LET range == [start_index |-> OrZero(element, "startIndex"),
                  end_index |-> OrZero(element, "endIndex")]
    IN  IF "paragraph" \in DOMAIN element
        THEN Merge(range, [type |-> "paragraph",
                           text |-> extractParagraphText(element.paragraph)])
        ELSE IF "table" \in DOMAIN element
        THEN LET tableRows == OrEmpty(element.table, "tableRows")
             IN  Merge(range,
                    [type |-> "table",
                     rows |-> Len(tableRows),
                     columns |-> IF Len(tableRows) > 0
                                 THEN Len(OrEmpty(tableRows[1], "tableCells")) ELSE 0,
                     cells |-> parseTableCells(element.table)])
        ELSE IF "sectionBreak" \in DOMAIN element THEN Merge(range, [type |-> "section_break"])
        ELSE IF "tableOfContents" \in DOMAIN element
        THEN Merge(range, [type |-> "table_of_contents"])
        ELSE Null

\* parseSegment: a header or footer segment's content and its range
parseSegment(segmentData) ==
    LET content == OrEmpty(segmentData, "content")
    IN  [content |-> content,
         start_index |-> IF Len(content) > 0 THEN OrZero(content[1], "startIndex") ELSE 0,
         end_index |-> IF Len(content) > 0 THEN OrZero(content[Len(content)], "endIndex") ELSE 0]

\* Object.entries(docData.headers || {}) with each value parsed
parseSegments(docData, kind) ==
    LET entries == OrEmpty(docData, kind)
    IN  [k \in 1..Len(entries) |->
            [id |-> entries[k].id, section |-> parseSegment(entries[k].section)]]

\* parseDocumentStructure: the body list (payload order, unknown elements
\* dropped), its tables, the segments, and total_length, the end of the last
\* element of the body list
parseDocumentStructure(docData) ==
    LET content == IF "body" \in DOMAIN docData THEN OrEmpty(docData.body, "content") ELSE <<>>
        body == SelectSeq([k \in 1..Len(content) |-> parseElement(content[k])],
                          LAMBDA elementInfo : "type" \in DOMAIN elementInfo)
    IN  [title |-> IF "title" \in DOMAIN docData THEN docData.title ELSE "",
         body |-> body,
         tables |-> SelectSeq(body, LAMBDA elementInfo : elementInfo.type = "table"),
         headers |-> parseSegments(docData, "headers"),
         footers |-> parseSegments(docData, "footers"),
         total_length |-> IF Len(body) > 0 THEN body[Len(body)].end_index ELSE 0]

\* the places where the parser reads a property of a member of the payload
\* that is null: a body element, a table row, a cell, an element of a cell's
\* content, the first element of a paragraph, an element read for its text
\* run, a header or footer value
NullMember(q) == \E k \in 1..Len(q) : q[k] = Null

ParagraphRaises(paragraph) == NullMember(OrEmpty(paragraph, "elements"))

CellRaises(cell) ==
    \/ cell = Null
    \/ NullMember(OrEmpty(cell, "content"))
    \/ \E k \in 1..Len(OrEmpty(cell, "content")) :
            /\ "paragraph" \in DOMAIN cell.content[k]
            /\ ParagraphRaises(cell.content[k].paragraph)

ElementRaises(element) ==
    \/ element = Null
    \/ "paragraph" \in DOMAIN element /\ ParagraphRaises(element.paragraph)
    \/ /\ "paragraph" \notin DOMAIN element /\ "table" \in DOMAIN element
       /\ LET tableRows == OrEmpty(element.table, "tableRows")
          IN  \/ NullMember(tableRows)
              \/ \E r \in 1..Len(tableRows) :
                  \E c \in 1..Len(OrEmpty(tableRows[r], "tableCells")) :
                      CellRaises(tableRows[r].tableCells[c])

ParseRaises(docData) ==
    \/ /\ "body" \in DOMAIN docData
       /\ \E k \in 1..Len(OrEmpty(docData.body, "content")) :
              ElementRaises(docData.body.content[k])
    \/ \E kind \in {"headers", "footers"} :
        \E k \in 1..Len(OrEmpty(docData, kind)) : docData[kind][k].section = Null

\* the same search with `>=` in place of `>`
getNextParagraphIndexAtOrAfter(docData, afterIndex) ==
    LET structure == parseDocumentStructure(docData)
        later == SelectSeq(structure.body, LAMBDA element :
                    element.type = "paragraph" /\ element.start_index >= afterIndex)
    IN  IF Len(later) > 0 THEN later[1].start_index
        ELSE IF structure.total_length - 1 > 1 THEN structure.total_length - 1 ELSE 1

\* getNextParagraphIndex: the loop returns at the first paragraph, in list
\* order, that starts after afterIndex
getNextParagraphIndex(docData, afterIndex) ==
    LET structure == parseDocumentStructure(docData)
        later == SelectSeq(structure.body, LAMBDA element :
                    element.type = "paragraph" /\ element.start_index > afterIndex)
    IN  IF Len(later) > 0 THEN later[1].start_index
        ELSE IF structure.total_length - 1 > 1 THEN structure.total_length - 1 ELSE 1

\* body elements of a payload: at most MaxElements of them, starting at
\* distinct indices of 0..MaxElements, in any order
StartIndexes == 0..MaxElements
ElementKinds == {"paragraph", "table", "inlineObject"}

\* an element as the payload carries it; a start of 0 is left out
BodyElement(kind, s) ==
    LET range == IF s = 0 THEN [endIndex |-> 1] ELSE [startIndex |-> s, endIndex |-> s + 1]
    IN  CASE kind = "paragraph" ->
                Merge(range, [paragraph |-> [elements |-> <<>>]])
          [] kind = "table" -> Merge(range, [table |-> [tableRows |-> <<>>]])
          [] OTHER -> Merge(range, [inlineObject |-> "kix.1"])

InitNextParagraph ==
    /\ op = "getNextParagraphIndex"
    /\ doc = NoDocument
    /\ \E n \in 0..MaxElements :
       \E starts \in {f \in [1..n -> StartIndexes] :
                        \A i, j \in 1..n : i # j => f[i] # f[j]} :
       \E kinds \in [1..n -> ElementKinds] : \E after \in StartIndexes :
          args = [docData |-> [title |-> "Document",
                               body |-> [content |->
                                   [k \in 1..n |-> BodyElement(kinds[k], starts[k])]]],
                  afterIndex |-> after]
    /\ Fresh

GetNextParagraphIndex ==
    /\ op = "getNextParagraphIndex" /\ pc = "start"
    /\ Return([status |-> "returned",
               value |-> getNextParagraphIndex(args.docData, args.afterIndex)])
    /\ UNCHANGED <<op, args, doc, failures, requests, operationDescriptions,
                   freshTables, rowIdx, colIdx, populationCount>>
    /\ UNCHANGED thinkingVars

Init ==
    \/ InitBatch
    \/ InitCreate
    \/ InitPopulate
    \/ InitUpdateHeaderFooter
    \/ InitCreateHeaderFooter
    \/ InitValidate
    \/ InitNextParagraph

Next ==
    \/ ExecuteBatchOperations
    \/ BatchSettled
    \/ CreateAndPopulateTable
    \/ TableCreated
    \/ FreshTablesFetched
    \/ CellTablesFetched
    \/ CellWritten
    \/ PopulateExistingTable
    \/ ExistingTablesFetched
    \/ ExistingCellTablesFetched
    \/ ExistingCellWritten
    \/ UpdateHeaderFooterContent
    \/ SectionFetched
    \/ SectionWritten
    \/ CreateHeaderFooter
    \/ SectionCreated
    \/ ValidateTableData
    \/ GetNextParagraphIndex
    \/ ServiceAnswers

Spec == Init /\ [][Next]_vars

(***************************************************************************)
(* parseDocumentStructure on its own: payloads with one table whose cells  *)
(* hold every shape of content, with parts absent and members null.  A     *)
(* field that is null reads like an absent one in every `||` and `?.` of   *)
(* the parser, so the payloads leave such fields out; members of lists and *)
(* header values can be null.                                              *)
(***************************************************************************)
TextRun(s) == [startIndex |-> s, endIndex |-> s + 2, textRun |-> [content |-> "ab"]]
InlineObject(s) ==
    [startIndex |-> s, endIndex |-> s + 1,
     inlineObjectElement |-> [inlineObjectId |-> "kix.1"]]
ParagraphOf(s, e, elements) ==
    [startIndex |-> s, endIndex |-> e, paragraph |-> [elements |-> elements]]

CellShapes ==
    {"no_content", "empty", "text", "object_first", "bare_then_text",
     "no_elements_then_text", "table_then_text", "run_without_start",
     "object_only", "at_cell_start", "at_cell_end", "outside", "null_element", "null_run",
     "tiny", "null"}

\* the content of a cell that starts at s, by shape
CellContent(shape, s) ==
    CASE shape = "empty" -> <<>>
      [] shape = "text" -> <<ParagraphOf(s + 1, s + 3, <<TextRun(s + 1)>>)>>
      [] shape = "object_first" ->
            <<ParagraphOf(s + 1, s + 4, <<InlineObject(s + 1), TextRun(s + 2)>>)>>
      [] shape = "bare_then_text" ->
            <<[startIndex |-> s + 1, endIndex |-> s + 2,
               paragraph |-> [paragraphStyle |-> "NORMAL_TEXT"]],
              ParagraphOf(s + 2, s + 4, <<TextRun(s + 2)>>)>>
      [] shape = "no_elements_then_text" ->
            <<ParagraphOf(s + 1, s + 2, <<>>), ParagraphOf(s + 2, s + 4, <<TextRun(s + 2)>>)>>
      [] shape = "table_then_text" ->
            <<[startIndex |-> s + 1, endIndex |-> s + 3, table |-> [rows |-> 0]],
              ParagraphOf(s + 3, s + 5, <<TextRun(s + 3)>>)>>
      [] shape = "run_without_start" ->
            <<ParagraphOf(s + 1, s + 3,
                <<[endIndex |-> s + 3, textRun |-> [content |-> "ab"]]>>)>>
      [] shape = "object_only" -> <<ParagraphOf(s + 1, s + 2, <<InlineObject(s + 1)>>)>>
      [] shape = "at_cell_start" -> <<ParagraphOf(s, s + 2, <<TextRun(s)>>)>>
      [] shape = "at_cell_end" ->
            <<ParagraphOf(s + CellSpan - 1, s + CellSpan,
                <<[startIndex |-> s + CellSpan - 1, endIndex |-> s + CellSpan,
                   textRun |-> [content |-> "\n"]]>>)>>
      [] shape = "outside" -> <<ParagraphOf(s + 8, s + 10, <<TextRun(s + 8)>>)>>
      [] shape = "null_element" -> <<Null>>
      [] shape = "null_run" -> <<ParagraphOf(s + 1, s + 3, <<Null>>)>>

PayloadCell(shape, s) ==
    CASE shape = "null" -> Null
      [] shape = "tiny" -> [startIndex |-> s, endIndex |-> s + 1]
      [] shape = "no_content" -> [startIndex |-> s, endIndex |-> s + CellSpan]
      [] OTHER -> [startIndex |-> s, endIndex |-> s + CellSpan,
                   content |-> CellContent(shape, s)]

\* the table element at index 1 with one row of cells of the given shapes
PayloadTable(shapes) ==
    [startIndex |-> 1, endIndex |-> 3 + CellSpan * Len(shapes),
     table |-> [rows |-> 1, columns |-> Len(shapes),
                tableRows |->
                    <<[startIndex |-> 2, endIndex |-> 3 + CellSpan * Len(shapes),
                       tableCells |-> [c \in 1..Len(shapes) |->
                            PayloadCell(shapes[c], 3 + CellSpan * (c - 1))]]>>]]

\* what stands in the body in front of the table
Leads ==
    {<<>>, <<Null>>,
     <<[endIndex |-> 1, sectionBreak |-> [sectionStyle |-> "CONTINUOUS"]]>>,
     <<[startIndex |-> 0, endIndex |-> 1, inlineObject |-> "kix.1"]>>,
     <<[endIndex |-> 1, paragraph |-> [elements |-> <<Null>>]]>>}

\* the headers of the payload
PayloadHeaders ==
    {<<>>,
     <<[id |-> "kix.h1", section |-> Null]>>,
     <<[id |-> "kix.h1", section |-> [headerId |-> "kix.h1"]]>>,
     <<[id |-> "kix.h1",
        section |-> [content |-> <<ParagraphOf(0, 3, <<TextRun(0)>>)>>]]>>}

\* payloads with parts of the table or of the document left out
PartialPayloads ==
    {[title |-> "Document"],
     [body |-> [documentId |-> "doc"]],
     [body |-> [content |-> <<[startIndex |-> 1, endIndex |-> 3, table |-> [rows |-> 0]]>>]],
     [body |-> [content |-> <<[startIndex |-> 1, endIndex |-> 3,
                              table |-> [tableRows |-> <<[startIndex |-> 2]>>]]>>]],
     [body |-> [content |-> <<[startIndex |-> 1, endIndex |-> 3,
                              table |-> [tableRows |-> <<Null>>]]>>]]}

InitParse ==
    /\ op = "parseDocumentStructure"
    /\ doc = NoDocument
    /\ \/ \E lead \in Leads : \E hs \in PayloadHeaders :
          \E shapes \in [1..1 -> CellShapes] \cup [1..2 -> CellShapes] :
            args = [docData |-> [body |-> [content |-> lead \o <<PayloadTable(shapes)>>],
                                 headers |-> hs],
                    shapes |-> shapes]
       \/ \E partial \in PartialPayloads : \E hs \in PayloadHeaders :
            args = [docData |-> Merge(partial, [footers |-> hs]), shapes |-> <<>>]
    /\ Fresh

\* the call: the parsed structure, or the TypeError of reading a property of null
ParseDocumentStructure ==
    /\ op = "parseDocumentStructure" /\ pc = "start"
    /\ IF ParseRaises(args.docData)
       THEN Return(Raised(MkError("TypeError", "Cannot read properties of null")))
       ELSE Return([status |-> "returned", value |-> parseDocumentStructure(args.docData)])
    /\ UNCHANGED <<op, args, doc, failures, requests, operationDescriptions,
                   freshTables, rowIdx, colIdx, populationCount>>
    /\ UNCHANGED thinkingVars

\* TableOperationManager.findTables reads the payload the parser has read
FindTables ==
    /\ op = "parseDocumentStructure" /\ pc = "done"
    /\ result.status = "returned" /\ freshTables.from = 0
    /\ freshTables' = [tables |-> findTables(args.docData), from |-> 1]
    /\ UNCHANGED <<op, args, pc, calls, inflight, awaiting, result, doc, failures,
                   requests, operationDescriptions, rowIdx, colIdx, populationCount>>
    /\ UNCHANGED thinkingVars

ParserNext ==
    \/ ParseDocumentStructure
    \/ FindTables

ParserSpec == InitParse /\ [][ParserNext]_vars

(***************************************************************************)
(* Properties of executeBatchOperations.                                   *)
(***************************************************************************)
Done == pc = "done"

\* a finished run of executeBatchOperations on a list (not null/undefined)
BatchDone ==
    op = "executeBatchOperations" /\ Done /\ args.operations.t = "array"

\* the operation is rejected by validation or by request building
Fails(o) ==
    LET v == validateOperation(o)
    IN  v.threw \/ ~v.ok \/ buildOperationRequest(o, Get(o, "type")).threw

FailingPositions(operations) == {k \in 1..Len(operations) : Fails(operations[k])}

FirstFailing(operations) ==
    CHOOSE k \in FailingPositions(operations) :
        \A j \in FailingPositions(operations) : k <= j

\* C1: whenever some operation of the list fails validation or building,
\* nothing is submitted, the result has success = false, and the message
\* names the 1-based position of the failing operation as "Operation k".
C1_AllOrNothing ==
    (BatchDone /\ FailingPositions(args.operations.v) # {}) =>
        /\ calls = <<>>
        /\ result.status = "returned"
        /\ ~result.success
        /\ Includes(result.message,
                    "Operation " \o NatToString(FirstFailing(args.operations.v)))

\* the start and end of a range operation, under whichever naming it has
StartOf(o) == IF "startIndex" \in DOMAIN o THEN o.startIndex ELSE Get(o, "start_index")
EndOf(o) == IF "endIndex" \in DOMAIN o THEN o.endIndex ELSE Get(o, "end_index")

\* a replace_text operation with a start, an end and a text
IsReplaceText(o) ==
    /\ Get(o, "type") = Str("replace_text")
    /\ Get(o, "text").t = "string"
    /\ StartOf(o).t = "number" /\ EndOf(o).t = "number"

RECURSIVE ReplaceRecords(_)
ReplaceRecords(operations) ==
    IF Len(operations) = 0 THEN <<>>
    ELSE <<createDeleteRangeRequest(StartOf(operations[1]), EndOf(operations[1])),
           createInsertTextRequest(StartOf(operations[1]), Get(operations[1], "text"))>>
         \o ReplaceRecords(Tail(operations))

\* C2: a list made of replace_text operations (each with start, end and
\* text) is submitted as, per operation and in order, delete-range(start,
\* end) immediately followed by insert-text(start, text).
C2_ReplaceExpands ==
    (/\ BatchDone
     /\ Len(args.operations.v) > 0
     /\ \A k \in 1..Len(args.operations.v) : IsReplaceText(args.operations.v[k])) =>
        /\ Len(calls) = 1
        /\ calls[1].requests = ReplaceRecords(args.operations.v)

\* the records one operation expands to
Expansion(o) == buildOperationRequest(o, Get(o, "type")).val.reqs

RECURSIVE ConcatExpansions(_)
ConcatExpansions(operations) ==
    IF Len(operations) = 0 THEN <<>>
    ELSE Expansion(operations[1]) \o ConcatExpansions(Tail(operations))

\* C3: a run of executeBatchOperations makes at most one service call, a
\* successful run exactly one, and the records of that call are the
\* operations' expansions in the caller's order: everything built from
\* operation i stands before everything built from operation j > i.
C3_OneCallInOrder ==
    op = "executeBatchOperations" =>
        /\ Len(calls) <= 1
        /\ (Done /\ result.status = "returned" /\ result.success) => Len(calls) = 1
        /\ Len(calls) = 1 =>
            /\ calls[1].api = "fetch"
            /\ calls[1].requests = ConcatExpansions(args.operations.v)

\* a successful run of three operations, not all alike, one of them
\* expanding to two records
C3_Witness ==
    /\ BatchDone
    /\ result.success
    /\ Len(args.operations.v) = 3
    /\ Len(calls[1].requests) > 3
    /\ Expansion(args.operations.v[1]) # Expansion(args.operations.v[3])

StyleFields == {"bold", "italic", "underline", "fontSize", "fontFamily"}
FieldsSet(o) == {f \in StyleFields : Get(o, f) # Undefined}

\* the name a style field has in the service's field mask
MaskNames(f) == IF f = "fontFamily" THEN {"fontFamily", "weightedFontFamily"} ELSE {f}

\* a list of one format_text operation that names its range
OneFormatText ==
    /\ BatchDone
    /\ Len(args.operations.v) = 1
    /\ Get(args.operations.v[1], "type") = Str("format_text")
    /\ StartOf(args.operations.v[1]).t = "number"
    /\ EndOf(args.operations.v[1]).t = "number"

\* C4: a format_text operation with no style field set is rejected with
\* "No formatting options provided" and nothing is submitted; with exactly
\* one style field set, one update-text-style record is submitted and its
\* field mask is that one field.
C4_FormatMask ==
    OneFormatText =>
        LET o == args.operations.v[1]
        IN  /\ FieldsSet(o) = {} =>
                /\ calls = <<>>
                /\ ~result.success
                /\ Includes(result.message, "No formatting options provided")
            /\ Cardinality(FieldsSet(o)) = 1 =>
                /\ Len(calls) = 1
                /\ Len(calls[1].requests) = 1
                /\ "updateTextStyle" \in DOMAIN calls[1].requests[1]
                /\ calls[1].requests[1].updateTextStyle.fields
                        \in MaskNames(CHOOSE f \in FieldsSet(o) : TRUE)

\* the service call failed: no response arrived, or one with an error status
CallFailed(reply) ==
    reply.settled /\ (~reply.ok \/ reply.data.kind = "network_error" \/ reply.data.status >= 400)

\* C5: when the batch call fails (no response, or a 4xx/5xx response) the
\* run returns success = false, and the call was made once.
C5_FailurePropagates ==
    (BatchDone /\ Len(calls) > 0 /\ CallFailed(calls[1].reply)) =>
        /\ Len(calls) = 1
        /\ result.status = "returned"
        /\ ~result.success

(***************************************************************************)
(* Properties of every public operation.                                   *)
(***************************************************************************)
PublicOperations ==
    {"executeBatchOperations", "createAndPopulateTable", "populateExistingTable",
     "updateHeaderFooterContent", "createHeaderFooter"}

\* C6: every finished run of a public operation has returned a structured
\* result with success and message; none has raised.
C6_NeverRaises ==
    Done /\ op \in PublicOperations =>
        /\ result.status = "returned"
        /\ {"success", "message"} \subseteq DOMAIN result

(***************************************************************************)
(* Properties of the table operations.                                     *)
(***************************************************************************)
CreateDone == op = "createAndPopulateTable" /\ Done

\* the cells of a rectangular matrix in row-major order, 0-based
AllCells(rows) ==
    LET R == Len(rows)
        C == Len(rows[1].v)
    IN  [k \in 1..(R * C) |-> <<(k - 1) \div C, (k - 1) % C>>]

TextOf(rows, rc) == rows[rc[1] + 1].v[rc[2] + 1].v

\* the cells with a non-empty text, in row-major order
NonEmptyCells(rows) == SelectSeq(AllCells(rows), LAMBDA rc : TextOf(rows, rc) # "")

\* the service answered every call of the run with success
AlwaysSucceeded == \A k \in 1..Len(calls) : calls[k].reply.settled /\ calls[k].reply.ok

\* call k is the write of cell rc: an insert-text of the cell's text,
\* followed, iff bold is due, by a bold update-text-style over that text
IsCellWrite(call, text, bold) ==
    /\ call.api = "documents.batchUpdate"
    /\ Len(call.requests) = (IF bold THEN 2 ELSE 1)
    /\ "insertText" \in DOMAIN call.requests[1]
    /\ call.requests[1].insertText.text = text
    /\ bold =>
        /\ "updateTextStyle" \in DOMAIN call.requests[2]
        /\ call.requests[2].updateTextStyle.fields = "bold"
        /\ call.requests[2].updateTextStyle.range =
              [startIndex |-> call.requests[1].insertText.location.index,
               endIndex |-> call.requests[1].insertText.location.index + Len(text)]

\* C7: for valid data with n non-empty cells and a service that always
\* succeeds, the run's calls are one insert-table (rows, columns, index as
\* given), the step-2 fetch, and then n rounds in row-major order, each a
\* fetch followed by that cell's write (insert-text, plus the bold
\* update-text-style iff boldHeaders and row 0); populated_cells = n.
C7_PopulationRounds ==
    (CreateDone /\ args.tableData.t = "array" /\ validateTableData(args.tableData)[1]
        /\ AlwaysSucceeded) =>
        LET rows == args.tableData.v
            cells == NonEmptyCells(rows)
            n == Len(cells)
        IN  /\ Len(calls) = 2 + 2 * n
            /\ calls[1].api = "documents.batchUpdate"
            /\ calls[1].requests =
                  <<[insertTable |-> [location |-> [index |-> args.index],
                                      rows |-> Len(rows), columns |-> Len(rows[1].v)]]>>
            /\ calls[2].api = "documents.get"
            /\ \A m \in 1..n :
                /\ calls[1 + 2 * m].api = "documents.get"
                /\ IsCellWrite(calls[2 + 2 * m], TextOf(rows, cells[m]),
                               args.boldHeaders /\ cells[m][1] = 0)
            /\ result.status = "returned"
            /\ result.success
            /\ result.metadata.populated_cells = n

\* the calls of the population: those behind the step-2 fetch
PopulationCalls(api) ==
    {k \in (freshTables.from + 1)..Len(calls) : calls[k].api = api}

\* C8: once population has started, the run ends with success = true
\* whatever failed on the way; every non-empty cell got its fetch, and
\* populated_cells is the number of cell writes that succeeded.
C8_BestEffort ==
    (CreateDone /\ freshTables.from # 0) =>
        /\ result.status = "returned"
        /\ result.success
        /\ Cardinality(PopulationCalls("documents.get"))
              = Len(NonEmptyCells(args.tableData.v))
        /\ result.metadata.populated_cells
              = Cardinality({k \in PopulationCalls("documents.batchUpdate") :
                                calls[k].reply.ok})

\* a cell's call failed, a later cell was still written, and the count is
\* short of the number of non-empty cells
C8_Witness ==
    /\ CreateDone /\ freshTables.from # 0
    /\ \E k \in (freshTables.from + 1)..Len(calls) :
        /\ ~calls[k].reply.ok
        /\ \E j \in (k + 1)..Len(calls) :
              calls[j].api = "documents.batchUpdate" /\ calls[j].reply.ok
    /\ result.metadata.populated_cells >= 1
    /\ result.metadata.populated_cells < Len(NonEmptyCells(args.tableData.v))

TableRun == op \in {"createAndPopulateTable", "populateExistingTable"}

\* C9: in a run of a table operation at most one call is outstanding, and
\* a call is issued only when every earlier call of the run has been
\* answered, with success or not.
C9_Sequential ==
    TableRun =>
        /\ Cardinality(inflight) <= 1
        /\ \A k \in 1..(Len(calls) - 1) : calls[k].reply.settled

\* the fetch of a next cell stands behind the answered write of a cell
C9_Witness ==
    /\ TableRun
    /\ \E k \in 3..(Len(calls) - 1) :
        /\ calls[k].api = "documents.batchUpdate"
        /\ calls[k].reply.settled
        /\ calls[k + 1].api = "documents.get"
        /\ k + 1 \in inflight

\* a write whose indices come from the document
IndexDerived(call) ==
    /\ call.api = "documents.batchUpdate"
    /\ \E i \in 1..Len(call.requests) :
          {"insertText", "deleteContentRange"} \cap DOMAIN call.requests[i] # {}

\* the insertion points the tables of a payload offer
CellIndexes(docData) ==
    LET tables == findTables(docData)
    IN  UNION {UNION {UNION {{tables[t].cells[r][c].insertion_index,
                              tables[t].cells[r][c].end_index - 1} :
                                c \in 1..Len(tables[t].cells[r])} :
                         r \in 1..Len(tables[t].cells)} :
                  t \in 1..Len(tables)}

\* the records are computed from this payload
FromPayload(reqs, docData) ==
    IF op = "updateHeaderFooterContent"
    THEN \E secs \in {docData.headers, docData.footers} : \E i \in 1..Len(secs) :
            reqs = SectionRequests(secs[i].section, args.content)
    ELSE reqs[1].insertText.location.index \in CellIndexes(docData)

\* C10: every write whose indices come from the document takes them from a
\* fetch the same run issued before it, with no write of the run between
\* that fetch and the write.
C10_FreshIndexes ==
    op \in {"createAndPopulateTable", "populateExistingTable",
            "updateHeaderFooterContent"} =>
        \A k \in 1..Len(calls) :
            IndexDerived(calls[k]) =>
                LET b == calls[k].basis
                IN  /\ b \in 1..(k - 1)
                    /\ calls[b].api = "documents.get"
                    /\ calls[b].reply.ok
                    /\ \A j \in (b + 1)..(k - 1) : calls[j].api # "documents.batchUpdate"
                    /\ FromPayload(calls[k].requests, calls[b].reply.data)

\* a cell write that was accepted, and a later cell write behind its own fetch
C10_Witness ==
    /\ TableRun
    /\ \E j \in 1..Len(calls) : \E k \in (j + 1)..Len(calls) :
        /\ IndexDerived(calls[j]) /\ calls[j].reply.ok
        /\ IndexDerived(calls[k]) /\ calls[k].basis = k - 1

\* the position (1-based) among the document's tables of the table this
\* run's insert-table created; 0 if there is none
OwnTablePosition(body) ==
    LET tables == SelectSeq(body, LAMBDA e : e.kind = "table")
        own == {k \in 1..Len(tables) : tables[k].own}
    IN  IF own = {} THEN 0 ELSE CHOOSE k \in own : TRUE

\* a cell write of createAndPopulateTable has been issued and not yet applied
CellWriteOutstanding ==
    op = "createAndPopulateTable" /\ pc = "await_cell_write" /\ awaiting \in inflight

\* C11: every cell write of createAndPopulateTable lands in a cell of the
\* table its own insert-table created, and the returned table_index is the
\* (0-based) position of that table among the document's tables.
C11_TargetsCreatedTable ==
    /\ CellWriteOutstanding =>
          LET i == calls[awaiting].requests[1].insertText.location.index
          IN  /\ PlaceOf(doc.body, i) # {}
              /\ \A p \in PlaceOf(doc.body, i) :
                    p.at[2] # 0 /\ doc.body[p.at[1]].own
    /\ (CreateDone /\ result.status = "returned" /\ result.success) =>
          result.metadata.table_index = OwnTablePosition(doc.body) - 1

\* C12: when validateTableData rejects the data, createAndPopulateTable
\* returns success = false with the validation message and has made no
\* service call.
C12_InvalidDataNoCalls ==
    (CreateDone /\ ~validateTableData(args.tableData)[1]) =>
        /\ calls = <<>>
        /\ result.status = "returned"
        /\ ~result.success
        /\ Includes(result.message, validateTableData(args.tableData)[2])

(***************************************************************************)
(* Properties of the header/footer operations.                             *)
(***************************************************************************)
\* a run of updateHeaderFooterContent whose arguments pass its two checks
UpdateRun ==
    /\ op = "updateHeaderFooterContent"
    /\ args.sectionType \in {"header", "footer"}
    /\ args.headerFooterType \in {"DEFAULT", "FIRST_PAGE_ONLY", "EVEN_PAGE"}

\* the document's sections of the kind the run asks for
SectionsOfKind == IF args.sectionType = "header" THEN doc.headers ELSE doc.footers

\* C13: on a document without a section of the requested kind,
\* updateHeaderFooterContent makes no batchUpdate call, and once the
\* document has been fetched it returns success = false with the message
\* telling the caller to create such a section first.
C13_NoSectionNoWrite ==
    (UpdateRun /\ SectionsOfKind = <<>>) =>
        /\ \A k \in 1..Len(calls) : calls[k].api # "documents.batchUpdate"
        /\ (Done /\ Len(calls) = 1 /\ calls[1].reply.ok) =>
            /\ result.status = "returned"
            /\ ~result.success
            /\ result.message = "No " \o args.sectionType
                    \o " found in document. Please create a " \o args.sectionType
                    \o " first in Google Docs."

\* a footer is asked for on a fetched document that has headers only
C13_Witness ==
    /\ UpdateRun /\ Done
    /\ args.sectionType = "footer"
    /\ doc.footers = <<>> /\ doc.headers # <<>>
    /\ Len(calls) = 1 /\ calls[1].reply.ok
    /\ Includes(result.message, "create a footer first")

(***************************************************************************)
(* Properties of populateExistingTable.                                    *)
(***************************************************************************)
DocTables == SelectSeq(doc.body, LAMBDA e : e.kind = "table")

\* a finished run of populateExistingTable on list data and a table the
\* document has, whose first fetch was answered
ExistingDone ==
    /\ op = "populateExistingTable" /\ Done
    /\ args.tableData.t = "array"
    /\ args.tableIndex < Len(DocTables)
    /\ calls[1].reply.ok

\* the data has more rows than the table, or some row of it more columns
DataExceedsTable ==
    LET cells == DocTables[args.tableIndex + 1].cells
        rows == args.tableData.v
    IN  \/ Len(rows) > Len(cells)
        \/ \E r \in 1..Len(rows) : Len(rows[r].v) > Len(cells[1])

\* C14: data with more rows than the table at tableIndex, or with any row
\* wider than the table, is rejected: success = false and no write call.
C14_RejectsOversizedData ==
    (ExistingDone /\ DataExceedsTable) =>
        /\ result.status = "returned"
        /\ ~result.success
        /\ \A k \in 1..Len(calls) : calls[k].api # "documents.batchUpdate"

\* the end boundaries of the cells of a payload's tables: the position in
\* front of each cell's closing newline
CellEnds(docData) ==
    LET tables == findTables(docData)
    IN  UNION {UNION {{tables[t].cells[r][c].end_index - 1 :
                            c \in 1..Len(tables[t].cells[r])} :
                         r \in 1..Len(tables[t].cells)} :
                  t \in 1..Len(tables)}

\* the data cells with a text that the table at tableIndex has a cell for
TargetCells ==
    LET cells == DocTables[args.tableIndex + 1].cells
        rows == args.tableData.v
    IN  {rc \in UNION {{<<r, c>> : c \in 1..Len(rows[r].v)} : r \in 1..Len(rows)} :
            /\ rows[rc[1]].v[rc[2]].v # ""
            /\ rc[1] <= Len(cells) /\ rc[2] <= Len(cells[rc[1]])}

\* C15: without clearExisting every write of populateExistingTable is one
\* insert-text at the end boundary of a cell of the fetch before it, and no
\* delete-range is issued; with clearExisting the old content of every
\* target cell is cleared, so a cell written with success holds the new
\* text only.
C15_ClearOrAppend ==
    op = "populateExistingTable" =>
        /\ ~args.clearExisting =>
            \A k \in 1..Len(calls) :
                calls[k].api = "documents.batchUpdate" =>
                    /\ Len(calls[k].requests) = 1
                    /\ DOMAIN calls[k].requests[1] = {"insertText"}
                    /\ calls[k - 1].api = "documents.get"
                    /\ calls[k].requests[1].insertText.location.index
                            \in CellEnds(calls[k - 1].reply.data)
        /\ (ExistingDone /\ args.clearExisting /\ result.success /\ AlwaysSucceeded) =>
            \A rc \in TargetCells :
                DocTables[args.tableIndex + 1].cells[rc[1]][rc[2]]
                    = args.tableData.v[rc[1]].v[rc[2]].v

(***************************************************************************)
(* Further properties of executeBatchOperations.                           *)
(***************************************************************************)
\* C16: a run on an empty operation list makes no service call at any time
\* and returns success = false.
C16_EmptyListRejected ==
    (op = "executeBatchOperations" /\ args.operations = Arr(<<>>)) =>
        /\ calls = <<>>
        /\ Done =>
            /\ result.status = "returned"
            /\ ~result.success
            /\ result.message
                 = "No operations provided. Please provide at least one operation."

\* the run on the empty list has returned
C16_Witness ==
    /\ op = "executeBatchOperations" /\ args.operations = Arr(<<>>)
    /\ Done /\ result.status = "returned" /\ ~result.success

SupportedTypeNames == {supportedTypes[k] : k \in 1..Len(supportedTypes)}

\* the operation names a type, and it is none of the seven supported ones
UnsupportedType(o) ==
    /\ Get(o, "type").t = "string"
    /\ Get(o, "type").v # ""
    /\ Get(o, "type").v \notin SupportedTypeNames

\* C17: when the first operation to fail is one of an unsupported type,
\* nothing is submitted, the result has success = false, and the message
\* names every supported operation type.
C17_UnsupportedNamesSupported ==
    (/\ BatchDone
     /\ FailingPositions(args.operations.v) # {}
     /\ UnsupportedType(args.operations.v[FirstFailing(args.operations.v)])) =>
        /\ calls = <<>>
        /\ result.status = "returned"
        /\ ~result.success
        /\ \A t \in SupportedTypeNames : Includes(result.message, t)

\* a delete_text operation whose start is not below its end
BackwardDelete(o) ==
    /\ Get(o, "type") = Str("delete_text")
    /\ StartOf(o).t = "number" /\ EndOf(o).t = "number"
    /\ StartOf(o).v >= EndOf(o).v

\* a delete-range record whose start is not below its end
BackwardRange(req) ==
    /\ "deleteContentRange" \in DOMAIN req
    /\ req.deleteContentRange.range.startIndex.t = "number"
    /\ req.deleteContentRange.range.endIndex.t = "number"
    /\ req.deleteContentRange.range.startIndex.v >= req.deleteContentRange.range.endIndex.v

\* C18: a list with a delete_text whose start >= end makes the batch fail,
\* and no delete-range record with start >= end is ever submitted.
C18_DeleteNeedsStartBelowEnd ==
    op = "executeBatchOperations" =>
        /\ \A k \in 1..Len(calls) : \A i \in 1..Len(calls[k].requests) :
                ~BackwardRange(calls[k].requests[i])
        /\ (BatchDone /\ \E k \in 1..Len(args.operations.v) :
                            BackwardDelete(args.operations.v[k])) =>
                /\ result.status = "returned"
                /\ ~result.success

(***************************************************************************)
(* validateTableData as a function of the matrix.                          *)
(***************************************************************************)
ValidateDone == op = "validateTableData" /\ Done

\* a list of lists
IsMatrix(d) == d.t = "array" /\ \A k \in 1..Len(d.v) : d.v[k].t = "array"

RowLengths(d) == {Len(d.v[k].v) : k \in 1..Len(d.v)}
Ragged(d) == Cardinality(RowLengths(d)) > 1
HasEmptyRow(d) == 0 \in RowLengths(d)
HasBadCell(d) ==
    \E k \in 1..Len(d.v) : \E j \in 1..Len(d.v[k].v) : d.v[k].v[j].t # "string"
TooManyRows(d) == Len(d.v) > 1000
TooManyColumns(d) == \E n \in RowLengths(d) : n > 20

\* the words by which a message names each constraint the matrix violates
ViolatedConstraints(d) ==
    {"same number of columns" : x \in {1} \cap (IF Ragged(d) THEN {1} ELSE {})}
    \cup {"Rows cannot be empty" : x \in {1} \cap (IF HasEmptyRow(d) THEN {1} ELSE {})}
    \cup {"All cells must be strings" : x \in {1} \cap (IF HasBadCell(d) THEN {1} ELSE {})}
    \cup {"Too many rows" : x \in {1} \cap (IF TooManyRows(d) THEN {1} ELSE {})}
    \cup {"Too many columns" : x \in {1} \cap (IF TooManyColumns(d) THEN {1} ELSE {})}

\* C19: validateTableData accepts every non-empty rectangular matrix of
\* strings with at most 1000 rows and 1 to 20 columns, and rejects, with a
\* message naming a constraint the matrix violates, every matrix that is
\* ragged, has an empty row, has a cell that is not a string, or exceeds the
\* row or column ceiling.
C19_ValidatesMatrices ==
    ValidateDone /\ IsMatrix(args.tableData) /\ Len(args.tableData.v) > 0 =>
        LET d == args.tableData
        IN  IF ViolatedConstraints(d) = {}
            THEN result.valid
            ELSE /\ ~result.valid
                 /\ \E words \in ViolatedConstraints(d) : Includes(result.message, words)

\* a matrix one row above the ceiling has been rejected
C19_Witness ==
    /\ ValidateDone /\ IsMatrix(args.tableData)
    /\ Len(args.tableData.v) = 1001
    /\ ViolatedConstraints(args.tableData) = {"Too many rows"}
    /\ ~result.valid

(***************************************************************************)
(* getNextParagraphIndex as a function of the payload.                     *)
(***************************************************************************)
NextParagraphDone == op = "getNextParagraphIndex" /\ Done

Content == args.docData.body.content
StartAt(k) == IF "startIndex" \in DOMAIN Content[k] THEN Content[k].startIndex ELSE 0

\* the positions of the paragraphs of the payload that start after afterIndex
LaterParagraphs ==
    {k \in 1..Len(Content) :
        "paragraph" \in DOMAIN Content[k] /\ StartAt(k) > args.afterIndex}

\* the positions of the elements the parser knows, and total_length
KnownElements ==
    {k \in 1..Len(Content) : {"paragraph", "table"} \cap DOMAIN Content[k] # {}}
TotalLength ==
    IF KnownElements = {} THEN 0
    ELSE Content[CHOOSE k \in KnownElements : \A j \in KnownElements : j <= k].endIndex
NoneLater == IF TotalLength - 1 > 1 THEN TotalLength - 1 ELSE 1

\* the body elements of the payload are in ascending index order
Ascending == \A i, j \in 1..Len(Content) : i < j => StartAt(i) < StartAt(j)

\* C20 (as stated): the result is the smallest start among the paragraphs
\* starting after afterIndex, whatever the order of the body elements, and
\* max(total_length - 1, 1) when there is no such paragraph.
C20_SmallestInAnyOrder ==
    NextParagraphDone =>
        IF LaterParagraphs = {} THEN result.value = NoneLater
        ELSE /\ \E k \in LaterParagraphs : result.value = StartAt(k)
             /\ \A k \in LaterParagraphs : result.value <= StartAt(k)

\* C20 (amended): the result is the start of the first paragraph, in payload
\* order, that starts after afterIndex; it is the smallest such start when the
\* body elements are in ascending index order; it is max(total_length - 1, 1)
\* when there is no such paragraph.
C20_FirstInPayloadOrder ==
    NextParagraphDone =>
        IF LaterParagraphs = {} THEN result.value = NoneLater
        ELSE /\ \E k \in LaterParagraphs :
                    /\ result.value = StartAt(k)
                    /\ \A j \in LaterParagraphs : k <= j
             /\ Ascending => \A k \in LaterParagraphs : result.value <= StartAt(k)

\* an ascending payload with two paragraphs after afterIndex, behind an
\* element that is not a paragraph, has been answered with the nearer one
C20_Witness ==
    /\ NextParagraphDone /\ Ascending
    /\ Cardinality(LaterParagraphs) = 2
    /\ \E k \in 1..Len(Content) :
            /\ "table" \in DOMAIN Content[k] /\ StartAt(k) > args.afterIndex
            /\ \A j \in LaterParagraphs : k < j
    /\ \A k \in LaterParagraphs : result.value <= StartAt(k)

(***************************************************************************)
(* The parser's table cells.                                               *)
(***************************************************************************)
\* a finished parse that returned a structure holding the table
ParseReturned ==
    /\ op = "parseDocumentStructure" /\ Done
    /\ result.status = "returned" /\ Len(args.shapes) > 0

\* cell c of the payload's table, and the parser's record of it
GivenCell(c) ==
    args.docData.body.content[Len(args.docData.body.content)].table.tableRows[1].tableCells[c]
ParsedCell(c) == result.value.tables[1].cells[1][c]

GivenContent(c) == IF "content" \in DOMAIN GivenCell(c) THEN GivenCell(c).content ELSE <<>>

\* the positions, in the cell's content, of its paragraphs
ParagraphsIn(c) ==
    {k \in 1..Len(GivenContent(c)) : "paragraph" \in DOMAIN GivenContent(c)[k]}
ElementsOf(c, k) ==
    IF "elements" \in DOMAIN GivenContent(c)[k].paragraph
    THEN GivenContent(c)[k].paragraph.elements ELSE <<>>
Least(S) == CHOOSE k \in S : \A j \in S : k <= j

\* the starts of the text runs of the cell's first paragraph, in run order
FirstParagraphRuns(c) ==
    IF ParagraphsIn(c) = {} THEN <<>>
    ELSE SelectSeq(ElementsOf(c, Least(ParagraphsIn(c))),
                   LAMBDA element : "textRun" \in DOMAIN element)
HasFirstRun(c) ==
    Len(FirstParagraphRuns(c)) > 0 /\ "startIndex" \in DOMAIN FirstParagraphRuns(c)[1]

\* C21 (as stated): insertion_index is the start of the first text run of the
\* cell's first paragraph when there is such a run, and start_index + 1
\* otherwise.
C21_FirstTextRun ==
    ParseReturned =>
        \A c \in 1..Len(args.shapes) :
            ParsedCell(c).insertion_index =
                IF HasFirstRun(c) THEN FirstParagraphRuns(c)[1].startIndex
                ELSE ParsedCell(c).start_index + 1

\* the paragraphs of the cell whose element list begins with an element that
\* carries a start index
StartedParagraphs(c) ==
    {k \in ParagraphsIn(c) :
        Len(ElementsOf(c, k)) > 0 /\ "startIndex" \in DOMAIN ElementsOf(c, k)[1]}

\* C21 (amended): insertion_index is the start of the first element, text run
\* or not, of the first paragraph of the cell whose element list begins with
\* an element carrying a start index, and start_index + 1 when the cell has
\* no such paragraph; it is the start of the first text run of the cell's
\* first paragraph whenever that paragraph begins with that run.
C21_FirstElement ==
    ParseReturned =>
        \A c \in 1..Len(args.shapes) :
            /\ ParsedCell(c).insertion_index =
                    IF StartedParagraphs(c) = {} THEN ParsedCell(c).start_index + 1
                    ELSE ElementsOf(c, Least(StartedParagraphs(c)))[1].startIndex
            /\ (/\ HasFirstRun(c)
                /\ "textRun" \in DOMAIN ElementsOf(c, Least(ParagraphsIn(c)))[1])
                    => ParsedCell(c).insertion_index = FirstParagraphRuns(c)[1].startIndex

\* a table whose first cell's paragraph begins with an inline object and
\* whose second cell has no content has been parsed
C21_Witness ==
    /\ ParseReturned
    /\ args.shapes = <<"object_first", "no_content">>
    /\ ParsedCell(1).insertion_index = GivenCell(1).startIndex + 1
    /\ ParsedCell(2).insertion_index = GivenCell(2).startIndex + 1

\* the ranges the cell's content names: those of its content elements and of
\* the elements of its paragraphs, where start and end are both given
RangeOf(e) ==
    IF {"startIndex", "endIndex"} \subseteq DOMAIN e
    THEN {<<e.startIndex, e.endIndex>>} ELSE {}
ContentRanges(c) ==
    UNION {RangeOf(GivenContent(c)[k]) : k \in 1..Len(GivenContent(c))}
    \cup UNION {UNION {RangeOf(ElementsOf(c, k)[j]) : j \in 1..Len(ElementsOf(c, k))} :
                    k \in ParagraphsIn(c)}

\* end_index > start_index, and the contents inside the cell's range
WellFormed(c) ==
    /\ GivenCell(c).endIndex > GivenCell(c).startIndex
    /\ \A r \in ContentRanges(c) :
            GivenCell(c).startIndex <= r[1] /\ r[2] <= GivenCell(c).endIndex

\* C22 (as stated): for every well-formed cell, insertion_index lies within
\* [start_index + 1, end_index - 1].
C22_WithinCell ==
    ParseReturned =>
        \A c \in 1..Len(args.shapes) :
            WellFormed(c) =>
                /\ ParsedCell(c).start_index + 1 <= ParsedCell(c).insertion_index
                /\ ParsedCell(c).insertion_index <= ParsedCell(c).end_index - 1

\* the cell holds its own index besides its contents: it spans two indices
\* or more and its contents begin behind its start
HoldsOwnIndex(c) ==
    /\ GivenCell(c).endIndex >= GivenCell(c).startIndex + 2
    /\ \A r \in ContentRanges(c) :
            GivenCell(c).startIndex + 1 <= r[1] /\ r[1] < r[2]
                /\ r[2] <= GivenCell(c).endIndex

\* C22 (amended): for every cell that spans at least two indices and whose
\* contents are non-empty ranges inside [start_index + 1, end_index],
\* insertion_index lies within [start_index + 1, end_index - 1].
C22_WithinCellBehindStart ==
    ParseReturned =>
        \A c \in 1..Len(args.shapes) :
            HoldsOwnIndex(c) =>
                /\ ParsedCell(c).start_index + 1 <= ParsedCell(c).insertion_index
                /\ ParsedCell(c).insertion_index <= ParsedCell(c).end_index - 1

\* a cell whose only paragraph is its closing newline has been parsed: the
\* insertion index is the last index of the cell
C22_Witness ==
    /\ ParseReturned
    /\ \E c \in 1..Len(args.shapes) :
            /\ args.shapes[c] = "at_cell_end" /\ HoldsOwnIndex(c)
            /\ ParsedCell(c).insertion_index = ParsedCell(c).end_index - 1

\* C23: parseDocumentStructure never throws: whatever is absent or null in the
\* payload, a finished parse has returned a structure.
C23_ParseNeverThrows ==
    op = "parseDocumentStructure" /\ Done => result.status = "returned"

(***************************************************************************)
(* ValidationManager.validateIndexRange on its own.                        *)
(***************************************************************************)
\* the number n + 0.5
Half(n) == [t |-> "number", v |-> n, half |-> TRUE]

\* Number.isInteger
IsInteger(x) == x.t = "number" /\ "half" \notin DOMAIN x

\* `${x}` of a number
NumberToString(x) ==
    (IF x.v < 0 THEN "-" \o NatToString(0 - x.v) ELSE NatToString(x.v))
    \o (IF "half" \in DOMAIN x THEN ".5" ELSE "")

\* `startIndex > documentLength`
BeyondDocumentLength(startIndex, documentLength) == startIndex.v > documentLength.v

\* `startIndex >= documentLength`
AtOrBeyondDocumentLength(startIndex, documentLength) == startIndex.v >= documentLength.v

validateIndexRange(startIndex, endIndex, documentLength) ==
    IF ~IsInteger(startIndex)
    THEN <<FALSE, "start_index must be an integer, got " \o TypeOf(startIndex)>>
    ELSE IF startIndex.v < 0
    THEN <<FALSE, "start_index cannot be negative, got " \o NumberToString(startIndex)>>
    ELSE IF endIndex # Undefined /\ ~IsInteger(endIndex)
    THEN <<FALSE, "end_index must be an integer, got " \o TypeOf(endIndex)>>
    ELSE IF endIndex # Undefined /\ endIndex.v <= startIndex.v
    THEN <<FALSE, "end_index (" \o NumberToString(endIndex)
                  \o ") must be greater than start_index ("
                  \o NumberToString(startIndex) \o ")">>
    ELSE IF documentLength # Undefined
            /\ AtOrBeyondDocumentLength(startIndex, documentLength)
    THEN <<FALSE, "start_index (" \o NumberToString(startIndex)
                  \o ") exceeds document length ("
                  \o NumberToString(documentLength) \o ")">>
    ELSE IF documentLength # Undefined /\ endIndex # Undefined
            /\ endIndex.v > documentLength.v
    THEN <<FALSE, "end_index (" \o NumberToString(endIndex)
                  \o ") exceeds document length ("
                  \o NumberToString(documentLength) \o ")">>
    ELSE <<TRUE, "">>

\* integers from -1 to MaxIndex, a number that is no integer, and values
\* that are no numbers
Indexes == {Num(n) : n \in -1..MaxIndex}

InitIndexRange ==
    /\ op = "validateIndexRange"
    /\ doc = NoDocument
    /\ \E s \in Indexes \cup {Half(1), Undefined, Str("1")} :
       \E e \in Indexes \cup {Num(MaxIndex + 1), Half(1), Undefined, Null} :
       \E len \in {Undefined} \cup {Num(n) : n \in 0..MaxIndex} :
            args = [startIndex |-> s, endIndex |-> e, documentLength |-> len]
    /\ Fresh

ValidateIndexRange ==
    /\ op = "validateIndexRange" /\ pc = "start"
    /\ LET v == validateIndexRange(args.startIndex, args.endIndex, args.documentLength)
       IN  Return([status |-> "returned", valid |-> v[1], message |-> v[2]])
    /\ UNCHANGED <<op, args, doc, failures, requests, operationDescriptions,
                   freshTables, rowIdx, colIdx, populationCount>>
    /\ UNCHANGED thinkingVars

IndexRangeSpec == InitIndexRange /\ [][ValidateIndexRange]_vars

\* C24 (as stated): validateIndexRange returns valid exactly when start is a
\* non-negative integer, end (if supplied) is an integer greater than start,
\* and (if a document length is supplied) start and end both lie within
\* [0, documentLength].
C24_ValidWithinClosedRange ==
    op = "validateIndexRange" /\ Done =>
        (result.valid <=>
            /\ IsInteger(args.startIndex) /\ args.startIndex.v >= 0
            /\ args.endIndex # Undefined =>
                    IsInteger(args.endIndex) /\ args.endIndex.v > args.startIndex.v
            /\ args.documentLength # Undefined =>
                    /\ args.startIndex.v <= args.documentLength.v
                    /\ args.endIndex # Undefined =>
                            args.endIndex.v <= args.documentLength.v)

\* C24 (amended): validateIndexRange returns valid exactly when start is a
\* non-negative integer, end (if supplied) is an integer greater than start,
\* and (if a document length is supplied) start lies within
\* [0, documentLength - 1] and end (if supplied) is at most documentLength.
C24_ValidWithinHalfOpenRange ==
    op = "validateIndexRange" /\ Done =>
        (result.valid <=>
            /\ IsInteger(args.startIndex) /\ args.startIndex.v >= 0
            /\ args.endIndex # Undefined =>
                    IsInteger(args.endIndex) /\ args.endIndex.v > args.startIndex.v
            /\ args.documentLength # Undefined =>
                    /\ args.startIndex.v < args.documentLength.v
                    /\ args.endIndex # Undefined =>
                            args.endIndex.v <= args.documentLength.v)

\* a start equal to the document length, with no end, has been rejected
C24_Witness ==
    /\ op = "validateIndexRange" /\ Done
    /\ args.endIndex = Undefined /\ args.documentLength # Undefined
    /\ IsInteger(args.startIndex) /\ args.startIndex.v = args.documentLength.v
    /\ ~result.valid

(***************************************************************************)
(* HeaderFooterManager.findTargetSection on its own: up to MaxElements     *)
(* sections of the requested kind, in every order, under distinct ids.     *)
(***************************************************************************)
SectionIds == {"kix.a", "First1", "xevenpage", "h"}
SectionVariants == {"", "DEFAULT", "FIRST_PAGE_ONLY"}

\* a section as the payload carries it; a section of no variant has no type
PayloadSection(id, type) ==
    [id |-> id,
     section |-> IF type = "" THEN [content |-> <<>>]
                 ELSE [type |-> type, content |-> <<>>]]

InitFindTargetSection ==
    /\ op = "findTargetSection"
    /\ doc = NoDocument
    /\ \E n \in 0..MaxElements :
       \E ids \in {f \in [1..n -> SectionIds] : \A i, j \in 1..n : i # j => f[i] # f[j]} :
       \E types \in [1..n -> SectionVariants] :
       \E st \in {"header", "footer"} :
       \E hft \in {"DEFAULT", "FIRST_PAGE", "EVEN_PAGE", "FIRST_PAGE_ONLY"} :
          LET mine == [k \in 1..n |-> PayloadSection(ids[k], types[k])]
              other == <<PayloadSection("kix.default.other", hft)>>
          IN  args = [doc |-> [headers |-> IF st = "header" THEN mine ELSE other,
                               footers |-> IF st = "footer" THEN mine ELSE other],
                      sectionType |-> st, headerFooterType |-> hft]
    /\ Fresh

FindTargetSection ==
    /\ op = "findTargetSection" /\ pc = "start"
    /\ LET target == findTargetSection(args.doc, args.sectionType, args.headerFooterType)
       IN  Return([status |-> "returned", found |-> target.found,
                   section |-> target.section, id |-> target.id])
    /\ UNCHANGED <<op, args, doc, failures, requests, operationDescriptions,
                   freshTables, rowIdx, colIdx, populationCount>>
    /\ UNCHANGED thinkingVars

TargetSectionSpec == InitFindTargetSection /\ [][FindTargetSection]_vars

\* the sections of the requested kind, and the positions of those that match
\* the variant by type and by id
KindSections == IF args.sectionType = "header" THEN args.doc.headers ELSE args.doc.footers
ExactMatches ==
    {k \in 1..Len(KindSections) :
        /\ "type" \in DOMAIN KindSections[k].section
        /\ KindSections[k].section.type = args.headerFooterType}
IdMatches ==
    {k \in 1..Len(KindSections) :
        \E p \in 1..Len(targetPatterns(args.headerFooterType)) :
            Includes(ToLowerCase(KindSections[k].id), targetPatterns(args.headerFooterType)[p])}
Returns(K) == \E k \in K : result.id = KindSections[k].id /\ result.section = KindSections[k].section

\* C25: findTargetSection returns a section whose type is the variant if
\* there is one; else a section whose id contains one of the variant's
\* substrings if there is one; else the first section; and none only when
\* the document has no section of the kind.
C25_StrictPriority ==
    op = "findTargetSection" /\ Done =>
        /\ result.found <=> Len(KindSections) > 0
        /\ ExactMatches # {} => Returns(ExactMatches)
        /\ ExactMatches = {} /\ IdMatches # {} => Returns(IdMatches)
        /\ ExactMatches = {} /\ IdMatches = {} /\ Len(KindSections) > 0 => Returns({1})

\* a section matching by type stands behind one matching by id, and the one
\* matching by type has been returned
C25_Witness ==
    /\ op = "findTargetSection" /\ Done
    /\ \E k \in ExactMatches : \E j \in IdMatches \ ExactMatches :
            j < k /\ result.id = KindSections[k].id

(***************************************************************************)
(* The records of updateHeaderFooterContent's write.                       *)
(***************************************************************************)
\* the writes of a run of updateHeaderFooterContent
SectionWrites ==
    {k \in 1..Len(calls) :
        op = "updateHeaderFooterContent" /\ calls[k].api = "documents.batchUpdate"}

\* C26: the write of updateHeaderFooterContent holds, in order, at most one
\* delete-range, naming a range with start < end, and then one insert-text
\* of the new content at the start of that range; there is one write at most.
C26_DeleteThenInsert ==
    /\ Cardinality(SectionWrites) <= 1
    /\ \A k \in SectionWrites :
        LET reqs == calls[k].requests
            last == reqs[Len(reqs)]
        IN  /\ Len(reqs) \in {1, 2}
            /\ "insertText" \in DOMAIN last /\ last.insertText.text = args.content
            /\ Len(reqs) = 2 =>
                /\ "deleteContentRange" \in DOMAIN reqs[1]
                /\ reqs[1].deleteContentRange.range.startIndex
                        < reqs[1].deleteContentRange.range.endIndex
                /\ reqs[1].deleteContentRange.range.startIndex
                        = last.insertText.location.index

(***************************************************************************)
(* The required-field schedules of the batch pipeline.                     *)
(***************************************************************************)
\* getSupportedOperations: the required fields it advertises per type, and
\* its example operations
getSupportedOperations ==
    [supportedOperations |->
        [insert_text |-> <<"index", "text">>,
         delete_text |-> <<"startIndex", "endIndex">>,
         replace_text |-> <<"startIndex", "endIndex", "text">>,
         format_text |-> <<"startIndex", "endIndex">>,
         insert_table |-> <<"index", "rows", "columns">>,
         insert_page_break |-> <<"index">>,
         find_replace |-> <<"findText", "replaceText">>],
     exampleOperations |->
        <<[type |-> Str("insert_text"), index |-> Num(1), text |-> Str("Hello World")],
          Merge([type |-> Str("format_text"), bold |-> Bool(TRUE)], Range("camel", 1, 12)),
          [type |-> Str("insert_table"), index |-> Num(20), rows |-> Num(2),
           columns |-> Num(3)]>>]

\* the operation carries every required field advertised for its type
CarriesAdvertised(o) ==
    /\ Get(o, "type").t = "string"
    /\ Get(o, "type").v \in DOMAIN getSupportedOperations.supportedOperations
    /\ LET req == getSupportedOperations.supportedOperations[Get(o, "type").v]
       IN  \A k \in 1..Len(req) : req[k] \in DOMAIN o

\* an index, range or text field of the record is undefined
UndefinedField(r) ==
    \/ "insertText" \in DOMAIN r
        /\ Undefined \in {r.insertText.location.index, r.insertText.text}
    \/ "deleteContentRange" \in DOMAIN r
        /\ Undefined \in {r.deleteContentRange.range.startIndex,
                          r.deleteContentRange.range.endIndex}
    \/ "updateTextStyle" \in DOMAIN r
        /\ Undefined \in {r.updateTextStyle.range.startIndex,
                          r.updateTextStyle.range.endIndex}
    \/ "insertTable" \in DOMAIN r /\ r.insertTable.location.index = Undefined
    \/ "insertPageBreak" \in DOMAIN r /\ r.insertPageBreak.location.index = Undefined
    \/ "replaceAllText" \in DOMAIN r
        /\ Undefined \in {r.replaceAllText.containsText.text, r.replaceAllText.replaceText}

\* C27: the names validateOperation requires are the names advertised and
\* read: every operation of a list that carries the advertised required
\* fields, and every example operation, passes validation, and no record
\* submitted has an undefined index, range or text field.
C27_OneSchedule ==
    BatchDone =>
        /\ \A k \in 1..Len(args.operations.v) :
                CarriesAdvertised(args.operations.v[k])
                    => validateOperation(args.operations.v[k]).ok
        /\ \A k \in 1..Len(getSupportedOperations.exampleOperations) :
                validateOperation(getSupportedOperations.exampleOperations[k]).ok
        /\ \A c \in 1..Len(calls) : \A k \in 1..Len(calls[c].requests) :
                ~UndefinedField(calls[c].requests[k])

(***************************************************************************)
(* The manager's own findTables against the parser, on one payload.        *)
(***************************************************************************)
\* both have read the payload's table
BothRead == ParseReturned /\ freshTables.from = 1

\* the insertion index populateSingleCell takes for cell c: that of the
\* last table of the manager's list
ManagerIndex(c) ==
    freshTables.tables[Len(freshTables.tables)].cells[1][c].insertion_index

BeginsBehindStart(c) ==
    \/ StartedParagraphs(c) = {}
    \/ ElementsOf(c, Least(StartedParagraphs(c)))[1].startIndex = GivenCell(c).startIndex + 1

docsTablesValidateTableData(data) ==
    IF ~Truthy(data) \/ (data.t = "array" /\ Len(data.v) = 0)
    THEN <<FALSE, "Data is empty. Use format: [['col1', 'col2'], ['row1col1', 'row1col2']]">>
    ELSE IF data.t # "array"
    THEN <<FALSE, "Data must be a list, got " \o TypeOf(data)>>
    ELSE IF \E k \in 1..Len(data.v) : data.v[k].t # "array"
    THEN <<FALSE, "Data must be a 2D list (list of lists)">>
    ELSE LET colCounts == [k \in 1..Len(data.v) |-> Len(data.v[k].v)]
             rows == Len(data.v)
             cols == colCounts[1]
         IN  IF Cardinality({colCounts[k] : k \in 1..rows}) > 1
             THEN <<FALSE, "All rows must have same number of columns. Found: "
                           \o NumbersToString(colCounts)>>
             ELSE IF rows > 1000
             THEN <<FALSE, "Too many rows (" \o NatToString(rows)
                           \o "). Google Docs limit is 1000 rows.">>
             ELSE IF cols > 20
             THEN <<FALSE, "Too many columns (" \o NatToString(cols)
                           \o "). Google Docs limit is 20 columns.">>
             ELSE LET missing == {<<i, j>> \in (1..rows) \X (1..cols) :
                                    data.v[i].v[j].t \in {"null", "undefined"}}
                  IN  IF missing # {}
                      THEN LET at == CHOOSE ij \in missing : \A o \in missing :
                                        ij[1] < o[1] \/ (ij[1] = o[1] /\ ij[2] <= o[2])
                           IN  <<FALSE, "Cell (" \o NatToString(at[1] - 1) \o ","
                                        \o NatToString(at[2] - 1)
                                        \o ") is null. Use empty strings for empty cells.">>
                      ELSE <<TRUE, "Valid table data: " \o NatToString(rows) \o "x"
                                   \o NatToString(cols) \o " table format">>

InitCreateTableWithData ==
    /\ op = "createTableWithData"
    /\ doc = NoDocument
    /\ \/ \E R \in RowCounts : \E C \in ColumnCounts : \E defect \in Defects :
          \E r \in {1, R} : \E c \in {1, C} :
            args = [documentId |-> "doc", index |-> 1,
                    tableData |-> Matrix(R, C, defect, r, c)]
       \/ \E data \in InvalidTables \cup {Arr(<<Arr(<<>>)>>)} :
            args = [documentId |-> "doc", index |-> 1, tableData |-> data]
    /\ Fresh

\* createTableWithData: the tool's answer, by its own validator alone
CreateTableWithData ==
    /\ op = "createTableWithData" /\ pc = "start"
    /\ LET validationResult == docsTablesValidateTableData(args.tableData)
       IN  IF ~validationResult[1]
           THEN Return([status |-> "returned", isValid |-> FALSE,
                        text |-> "ERROR: " \o validationResult[2]])
           ELSE Return([status |-> "returned", isValid |-> TRUE,
                        text |-> "SUCCESS: Created table with data at index "
                                 \o NatToString(args.index)
                                 \o ". Link: https://docs.google.com/document/d/"
                                 \o args.documentId \o "/edit"])
    /\ UNCHANGED <<op, args, doc, failures, requests, operationDescriptions,
                   freshTables, rowIdx, colIdx, populationCount>>
    /\ UNCHANGED thinkingVars

ValidatorsSpec == InitCreateTableWithData /\ [][CreateTableWithData]_vars

\* C29: the tool's validator reports valid exactly when the manager's does.
C29_ValidatorsAgree ==
    op = "createTableWithData" /\ Done =>
        (result.isValid <=> validateTableData(args.tableData)[1])


(***************************************************************************)
(* sequentialthinking/index.ts : sequentialThinkingTool.  Every call reads *)
(* the user's state from Redis, pushes its thought onto the copy it read   *)
(* and writes the copy back.  The calls of one user are separate requests: *)
(* each is suspended at its redis.get and again at its redis.set, and      *)
(* Redis serves the commands of all of them one at a time, in any order    *)
(* across calls.  JSON.stringify and the client's parse of the reply keep  *)
(* the arrays and the fields of a thought as they are (numbers, strings,   *)
(* no undefined-valued fields after the schema's parse), so the stored     *)
(* value is the state itself.                                              *)
(***************************************************************************)
\* if (!state) state = { thoughtHistory: [], branches: {} }
NoState == [thoughtHistory |-> <<>>, branches |-> <<>>]

\* what redis.get resolved to becomes the call's state (index.ts 28-39):
\* null for a key never written, the stored object otherwise
loadState(raw) == IF raw = Null THEN NoState ELSE raw

\* input.branchFromThought && input.branchId
Branched(input) ==
    Truthy(Get(input, "branchFromThought")) /\ Truthy(Get(input, "branchId"))

\* state.branches[input.branchId], created empty when the branch is new
branchOf(state, id) ==
    IF id \in DOMAIN state.branches THEN state.branches[id] ELSE <<>>

\* index.ts 41-48 : the thought is pushed onto the history and onto its branch
pushThought(state, input) ==
    LET id == input.branchId.v
        history == Append(state.thoughtHistory, input)
    IN  IF Branched(input)
        THEN [thoughtHistory |-> history,
              branches |-> [b \in DOMAIN state.branches \cup {id} |->
                                IF b = id THEN Append(branchOf(state, id), input)
                                ELSE state.branches[b]]]
        ELSE [thoughtHistory |-> history, branches |-> state.branches]

\* the thoughts a call may carry: the k-th call brings thought number k
BranchIds == {"", "b1", "b2"}

ThoughtsOf(k) ==
    {[thoughtNumber |-> Num(k)]}
        \cup {[thoughtNumber |-> Num(k), branchId |-> Str(b)] : b \in BranchIds}
        \cup {[thoughtNumber |-> Num(k), branchFromThought |-> Num(1), branchId |-> Str(b)] :
                b \in BranchIds}

InitThinking ==
    /\ op = "sequentialThinkingTool"
    /\ args = [userId |-> "user"]
    /\ doc = NoDocument
    /\ pc = "start"
    /\ calls = <<>>
    /\ inflight = {}
    /\ awaiting = 0
    /\ result = NoResult
    /\ failures = 0
    /\ requests = <<>>
    /\ operationDescriptions = <<>>
    /\ freshTables = [tables |-> <<>>, from |-> 0]
    /\ rowIdx = 0
    /\ colIdx = 0
    /\ populationCount = 0
    /\ redis = Null
    /\ \E n \in 1..MaxThoughts : \E inputs \in [1..n -> UNION {ThoughtsOf(k) : k \in 1..n}] :
        /\ \A k \in 1..n : inputs[k] \in ThoughtsOf(k)
        /\ thinking = [k \in 1..n |-> [input |-> inputs[k], at |-> "start",
                                       state |-> NoState, thoughtHistoryLength |-> 0]]

thinkingFrame ==
    UNCHANGED <<op, args, pc, calls, inflight, awaiting, result, doc, requests,
                operationDescriptions, freshTables, rowIdx, colIdx, populationCount>>

\* a request arrives and the call suspends at `await redis.get(key)` (line 30)
SequentialThinkingTool ==
    /\ op = "sequentialThinkingTool"
    /\ \E c \in DOMAIN thinking :
        /\ thinking[c].at = "start"
        /\ thinking' = [thinking EXCEPT ![c].at = "get"]
    /\ UNCHANGED <<redis, failures>>
    /\ thinkingFrame

\* Redis serves the get, or the command fails and the catch of lines 34-36
\* leaves the state null; the call then runs on to `await redis.set` (line 51)
StateRead ==
    /\ op = "sequentialThinkingTool"
    /\ \E c \in DOMAIN thinking :
        /\ thinking[c].at = "get"
        /\ \/ /\ thinking' = [thinking EXCEPT
                    ![c].state = pushThought(loadState(redis), thinking[c].input),
                    ![c].at = "set"]
              /\ UNCHANGED failures
           \/ /\ failures < MaxFailures
              /\ failures' = failures + 1
              /\ thinking' = [thinking EXCEPT
                    ![c].state = pushThought(loadState(Null), thinking[c].input),
                    ![c].at = "set"]
    /\ UNCHANGED redis
    /\ thinkingFrame

\* Redis serves the set and the call returns its summary (lines 51-58), or
\* the command fails and the call raises
StateWritten ==
    /\ op = "sequentialThinkingTool"
    /\ \E c \in DOMAIN thinking :
        /\ thinking[c].at = "set"
        /\ \/ /\ redis' = thinking[c].state
              /\ thinking' = [thinking EXCEPT
                    ![c].at = "returned",
                    ![c].thoughtHistoryLength = Len(thinking[c].state.thoughtHistory)]
              /\ UNCHANGED failures
           \/ /\ failures < MaxFailures
              /\ failures' = failures + 1
              /\ thinking' = [thinking EXCEPT ![c].at = "raised"]
              /\ UNCHANGED redis
    /\ thinkingFrame

ThinkingNext == SequentialThinkingTool \/ StateRead \/ StateWritten

ThinkingSpec == InitThinking /\ [][ThinkingNext]_vars

\* every call for the user has returned
AllReturned ==
    /\ op = "sequentialThinkingTool"
    /\ \A c \in DOMAIN thinking : thinking[c].at = "returned"

\* the thought is in the list
Holds(list, input) == \E i \in 1..Len(list) : list[i] = input

\* the stored state holds the thought, in its branch's list too if it has one
Persisted(input) ==
    /\ redis # Null
    /\ Holds(redis.thoughtHistory, input)
    /\ Branched(input) =>
            /\ input.branchId.v \in DOMAIN redis.branches
            /\ Holds(redis.branches[input.branchId.v], input)

\* C30: once all n calls for the user have returned, whatever the order in
\* which Redis served their reads and writes, the stored thoughtHistory
\* holds all n thoughts and every branched thought is in its branch's list.
C30_NoThoughtLost ==
    AllReturned => \A c \in DOMAIN thinking : Persisted(thinking[c].input)

====
